---- MODULE Spec2Model ----
(***************************************************************************)
(* Hybrid retrieval engine of src/rag: the lexical index (BM25Index), the  *)
(* dense index (VectorIndex) and the Retriever that fuses their rankings   *)
(* by Reciprocal Rank Fusion and optionally reranks them.                  *)
(*                                                                         *)
(* Python floats are modelled in fixed point: a real x is the integer      *)
(* floor(x * Scale).  Fused RRF scores are exact rationals <<num, den>>.   *)
(* Python dict objects live in `heap`; an index stores references, so the  *)
(* identity id(doc) of the code is the reference itself.                   *)
(***************************************************************************)
EXTENDS Integers, Sequences, FiniteSets, TLC

VARIABLES heap, bm, bm_call, vec, vec_call, rr, rt_call, cos,
          tfc, fs, ed_call, pool, tu_call, par

vars == <<heap, bm, bm_call, vec, vec_call, rr, rt_call, cos,
          tfc, fs, ed_call, pool, tu_call, par>>

(***************************************************************************)
(* Bounds of the model.                                                    *)
(***************************************************************************)
MaxDocs == 3
MaxK == 2
MaxVecs == 2
MaxRetDocs == 3

\* fixed-point unit: 1.0 is Scale
Scale == 10 ^ 4

\* no call of _cosine_distance observed yet: its two arguments and result
NoCos == [called |-> FALSE, vec1 |-> <<>>, vec2 |-> <<>>, dist |-> 0]

(***************************************************************************)
(* Values.  A text is a sequence of one-character strings.                 *)
(***************************************************************************)
NotADict == 0

TxtAB == <<"a", " ", "b">>
TxtUpperA == <<"A">>
TxtBBA == <<"b", " ", "b", "-", "a">>
TxtBlank == <<" ", "-">>
TxtEmpty == <<>>

\* the dict objects a caller may hand to the indexes
InitialHeap ==
  <<[hasContent |-> TRUE,  contentIsStr |-> TRUE,  content |-> TxtAB,
     hasId |-> TRUE,  id |-> "d1", meta |-> "m1"],
    [hasContent |-> TRUE,  contentIsStr |-> TRUE,  content |-> TxtUpperA,
     hasId |-> FALSE, id |-> "",   meta |-> "m2"],
    [hasContent |-> TRUE,  contentIsStr |-> TRUE,  content |-> TxtBBA,
     hasId |-> TRUE,  id |-> "d1", meta |-> "m3"],
    [hasContent |-> TRUE,  contentIsStr |-> TRUE,  content |-> TxtBlank,
     hasId |-> TRUE,  id |-> "d2", meta |-> "m4"],
    [hasContent |-> TRUE,  contentIsStr |-> FALSE, content |-> TxtEmpty,
     hasId |-> FALSE, id |-> "",   meta |-> "m5"],
    [hasContent |-> FALSE, contentIsStr |-> FALSE, content |-> TxtEmpty,
     hasId |-> TRUE,  id |-> "d3", meta |-> "m6"]>>

Objs == DOMAIN InitialHeap

\* what a caller may pass as `document`
DocArgs == Objs \cup {NotADict}

IsDict(d) == d \in Objs

\* what a caller may pass as `query_text`
QueryArgs ==
  {[isStr |-> TRUE, chars |-> <<"a">>],
   [isStr |-> TRUE, chars |-> <<"B">>],
   [isStr |-> TRUE, chars |-> <<"b", " ", "A">>],
   [isStr |-> TRUE, chars |-> <<"a", "b">>],
   [isStr |-> TRUE, chars |-> <<"-", " ">>],
   [isStr |-> TRUE, chars |-> <<>>],
   [isStr |-> FALSE, chars |-> <<>>]}

KArgs == 0 .. MaxK

(***************************************************************************)
(* Sequence helpers.                                                       *)
(***************************************************************************)
Range(s) == {s[i] : i \in DOMAIN s}

RECURSIVE SumSeq(_)
SumSeq(s) == IF s = <<>> THEN 0 ELSE Head(s) + SumSeq(Tail(s))

Count(s, x) == Cardinality({i \in DOMAIN s : s[i] = x})

\* list[:k] for k >= 0
Take(s, k) == SubSeq(s, 1, IF k < Len(s) THEN k ELSE Len(s))

\* list.sort(key=lambda item: item.key): stable, smaller key first
RECURSIVE InsertAsc(_, _)
InsertAsc(sorted, x) ==
  IF sorted = <<>> THEN <<x>>
  ELSE IF Head(sorted).key <= x.key
       THEN <<Head(sorted)>> \o InsertAsc(Tail(sorted), x)
       ELSE <<x>> \o sorted

RECURSIVE SortAsc(_)
SortAsc(s) ==
  IF s = <<>> THEN <<>>
  ELSE InsertAsc(SortAsc(SubSeq(s, 1, Len(s) - 1)), s[Len(s)])

\* list.sort(key=lambda item: item.key, reverse=True): stable, larger key first
RECURSIVE InsertDesc(_, _)
InsertDesc(sorted, x) ==
  IF sorted = <<>> THEN <<x>>
  ELSE IF Head(sorted).key >= x.key
       THEN <<Head(sorted)>> \o InsertDesc(Tail(sorted), x)
       ELSE <<x>> \o sorted

\* reverse=True forgotten
SortDescNoReverse(s) == SortAsc(s)

RECURSIVE SortDesc(_)
SortDesc(s) ==
  IF s = <<>> THEN <<>>
  ELSE InsertDesc(SortDesc(SubSeq(s, 1, Len(s) - 1)), s[Len(s)])

(***************************************************************************)
(* Fixed-point math.log and math.exp.                                      *)
(***************************************************************************)
\* ln(2) in fixed point
Ln2 == (6931 * Scale) \div (10 ^ 4)

\* 2 * atanh(z) = 2 * (z + z^3/3 + z^5/5 + ...), z in fixed point, 0 <= z <= 1/3
RECURSIVE AtanhSeries(_, _, _)
AtanhSeries(pow, zsq, n) ==
  IF pow = 0 \/ n > 15 THEN 0
  ELSE (pow \div n) + AtanhSeries((pow * zsq) \div Scale, zsq, n + 2)

\* math.log(p / q) for integers p >= q >= 1
RECURSIVE LnRatio(_, _)
LnRatio(p, q) ==
  IF p >= 2 * q THEN Ln2 + LnRatio(p, 2 * q)
  ELSE LET z == ((p - q) * Scale) \div (p + q)
       IN  2 * AtanhSeries(z, (z * z) \div Scale, 1)

\* exp(y) = 1 + y + y^2/2! + ..., y >= 0 in fixed point
RECURSIVE ExpSeries(_, _, _)
ExpSeries(term, y, n) ==
  IF term = 0 \/ n > 20 THEN 0
  ELSE term + ExpSeries((term * y) \div (Scale * n), y, n + 1)

\* math.exp(-y) for y >= 0 in fixed point
ExpNeg(y) == (Scale * Scale) \div ExpSeries(Scale, y, 1)

(***************************************************************************)
(* BM25Index  (src/rag/VectorDB/BM25Index.py)                              *)
(***************************************************************************)
\* k1 = 1.5 and b = 0.75 as fractions
K1Num == 3
K1Den == 2
BNum == 3
BDen == 4
\* score_normalization_factor = 0.1 = 1 / AlphaDen
AlphaDen == 10
\* the near-zero threshold 1e-9 (and the 1e-9 added to the denominator) is
\* below the fixed-point resolution: floor(1e-9 * Scale)
ScoreEps == 0

Lower(c) == IF c = "A" THEN "a" ELSE IF c = "B" THEN "b" ELSE c

\* the pattern written [^\w-]+ instead of \W+
IsWordCharWithDash(c) == c \in {"a", "b", "A", "B", "-"}

\* \w of the regular expression
IsWordChar(c) == c \in {"a", "b", "A", "B"}

\* text.lower(), re.split(r"\W+", text), empty tokens dropped
RECURSIVE TokenizeFrom(_, _, _)
TokenizeFrom(text, i, cur) ==
  LET flush == IF cur = <<>> THEN <<>> ELSE <<cur>>
  IN  IF i > Len(text) THEN flush
      ELSE IF IsWordChar(Lower(text[i]))
           THEN TokenizeFrom(text, i + 1, Append(cur, Lower(text[i])))
           ELSE flush \o TokenizeFrom(text, i + 1, <<>>)

DefaultTokenizer(text) == TokenizeFrom(text, 1, <<>>)

BM25Empty ==
  [documents |-> <<>>, corpus_tokens |-> <<>>, doc_len |-> <<>>,
   doc_freqs |-> <<>>, avg_doc_len |-> [num |-> 0, den |-> 1],
   idf |-> <<>>, index_built |-> FALSE]

\* _index_built left as it was
UpdateStatsAddKeepsBuilt(idx, doc_tokens) ==
  [idx EXCEPT
     !.doc_len = Append(@, Len(doc_tokens)),
     !.doc_freqs =
        [t \in (DOMAIN idx.doc_freqs) \cup Range(doc_tokens) |->
           (IF t \in DOMAIN idx.doc_freqs THEN idx.doc_freqs[t] ELSE 0)
           + (IF t \in Range(doc_tokens) THEN 1 ELSE 0)]]

\* _update_stats_add
UpdateStatsAdd(idx, doc_tokens) ==
  [idx EXCEPT
     !.doc_len = Append(@, Len(doc_tokens)),
     !.doc_freqs =
        [t \in (DOMAIN idx.doc_freqs) \cup Range(doc_tokens) |->
           (IF t \in DOMAIN idx.doc_freqs THEN idx.doc_freqs[t] ELSE 0)
           + (IF t \in Range(doc_tokens) THEN 1 ELSE 0)],
     !.index_built = FALSE]

\* _calculate_idf: ln(((N - freq + 0.5) / (freq + 0.5)) + 1)
\*               = ln((2N + 2) / (2 freq + 1))
CalculateIdf(idx) ==
  LET N == Len(idx.documents)
  IN  [term \in DOMAIN idx.doc_freqs |->
         LnRatio(2 * N + 2, 2 * idx.doc_freqs[term] + 1)]

\* _doc_freqs recounted while building, as the occurrences of each term
BuildIndexRecountsFreqs(idx) ==
  IF idx.documents = <<>>
  THEN [idx EXCEPT !.avg_doc_len = [num |-> 0, den |-> 1],
                   !.idf = <<>>, !.index_built = TRUE]
  ELSE [idx EXCEPT
          !.doc_freqs =
             [t \in DOMAIN idx.doc_freqs |->
                SumSeq([i \in DOMAIN idx.corpus_tokens |->
                          Count(idx.corpus_tokens[i], t)])],
          !.avg_doc_len = [num |-> SumSeq(idx.doc_len),
                           den |-> Len(idx.documents)],
          !.idf = CalculateIdf(idx),
          !.index_built = TRUE]

\* _build_index
BuildIndex(idx) ==
  IF idx.documents = <<>>
  THEN [idx EXCEPT !.avg_doc_len = [num |-> 0, den |-> 1],
                   !.idf = <<>>, !.index_built = TRUE]
  ELSE [idx EXCEPT
          !.avg_doc_len = [num |-> SumSeq(idx.doc_len),
                           den |-> Len(idx.documents)],
          !.idf = CalculateIdf(idx),
          !.index_built = TRUE]

\* add_document: the exception raised ("none" when the call succeeds)
BM25AddRaises(h, d) ==
  IF ~IsDict(d) THEN "TypeError"
  ELSE IF ~h[d].hasContent THEN "ValueError"
  ELSE IF ~h[d].contentIsStr THEN "TypeError"
  ELSE "none"

\* the document appended before its content is validated
BM25AddDocumentAppendsFirst(idx, h, d) ==
  IF ~IsDict(d) THEN idx
  ELSE IF ~h[d].hasContent THEN idx
  ELSE IF ~h[d].contentIsStr
       THEN [idx EXCEPT !.documents = Append(@, d)]
       ELSE LET doc_tokens == DefaultTokenizer(h[d].content)
            IN  UpdateStatsAdd(
                  [idx EXCEPT !.documents = Append(@, d),
                              !.corpus_tokens = Append(@, doc_tokens)],
                  doc_tokens)

\* add_document: the index after the call
BM25AddDocument(idx, h, d) ==
  IF BM25AddRaises(h, d) # "none" THEN idx
  ELSE LET doc_tokens == DefaultTokenizer(h[d].content)
       IN  UpdateStatsAdd(
             [idx EXCEPT !.documents = Append(@, d),
                         !.corpus_tokens = Append(@, doc_tokens)],
             doc_tokens)

\* the term frequency left out of the numerator
BM25TermIgnoresTf(idx, token, doc_index) ==
  IF token \notin DOMAIN idx.idf THEN 0
  ELSE LET tf == Count(idx.corpus_tokens[doc_index], token)
           dl == idx.doc_len[doc_index]
           sum == idx.avg_doc_len.num
           n == idx.avg_doc_len.den
           numerator == idx.idf[token] * (K1Num + K1Den) * BDen * sum
           denominator == tf * K1Den * BDen * sum
                          + K1Num * ((BDen - BNum) * sum + BNum * dl * n)
       IN  numerator \div denominator

\* one query token's summand of _compute_bm25_score
BM25Term(idx, token, doc_index) ==
  IF token \notin DOMAIN idx.idf THEN 0
  ELSE LET tf == Count(idx.corpus_tokens[doc_index], token)
           dl == idx.doc_len[doc_index]
           sum == idx.avg_doc_len.num
           n == idx.avg_doc_len.den
           numerator == idx.idf[token] * tf * (K1Num + K1Den) * BDen * sum
           denominator == tf * K1Den * BDen * sum
                          + K1Num * ((BDen - BNum) * sum + BNum * dl * n)
       IN  numerator \div denominator

\* _compute_bm25_score
RECURSIVE ComputeBM25Score(_, _, _)
ComputeBM25Score(idx, query_tokens, doc_index) ==
  IF query_tokens = <<>> THEN 0
  ELSE BM25Term(idx, Head(query_tokens), doc_index)
       + ComputeBM25Score(idx, Tail(query_tokens), doc_index)

\* the loop of search that collects (raw_score, document) above the threshold
RECURSIVE RawScores(_, _, _)
RawScores(idx, query_tokens, i) ==
  IF i > Len(idx.documents) THEN <<>>
  ELSE LET raw == ComputeBM25Score(idx, query_tokens, i)
           rest == RawScores(idx, query_tokens, i + 1)
       IN  IF raw > ScoreEps
           THEN <<[key |-> raw, doc |-> idx.documents[i]]>> \o rest
           ELSE rest

\* math.exp(-score_normalization_factor * raw_score)
Normalize(raw) == ExpNeg(raw \div AlphaDen)

NormalizedResults(top) ==
  [i \in DOMAIN top |-> [key |-> Normalize(top[i].key), doc |-> top[i].doc]]

\* search: [raised, result, idx], result a list of [doc, score]
BM25Search(idx, query, k) ==
  IF idx.documents = <<>>
  THEN [raised |-> "none", result |-> <<>>, idx |-> idx]
  ELSE IF ~query.isStr
  THEN [raised |-> "TypeError", result |-> <<>>, idx |-> idx]
  ELSE IF k <= 0
  THEN [raised |-> "ValueError", result |-> <<>>, idx |-> idx]
  ELSE
    LET built == IF idx.index_built THEN idx ELSE BuildIndex(idx)
        query_tokens == DefaultTokenizer(query.chars)
    IN  IF built.avg_doc_len.num = 0
        THEN [raised |-> "none", result |-> <<>>, idx |-> built]
        ELSE IF query_tokens = <<>>
        THEN [raised |-> "none", result |-> <<>>, idx |-> built]
        ELSE
          LET raw_scores == SortDesc(RawScores(built, query_tokens, 1))
              normalized == SortAsc(NormalizedResults(Take(raw_scores, k)))
          IN  [raised |-> "none",
               result |-> [i \in DOMAIN normalized |->
                             [doc |-> normalized[i].doc,
                              score |-> normalized[i].key]],
               idx |-> built]

NoCall == [op |-> "none", doc |-> NotADict,
           query |-> [isStr |-> FALSE, chars |-> <<>>], k |-> 0,
           raised |-> "none", result |-> <<>>]

\* a caller adds a document to the lexical index
BMAddDocument(d) ==
  /\ BM25AddRaises(heap, d) = "none" => Len(bm.documents) < MaxDocs
  /\ bm' = BM25AddDocument(bm, heap, d)
  /\ bm_call' = [NoCall EXCEPT !.op = "add_document", !.doc = d,
                               !.raised = BM25AddRaises(heap, d)]
  /\ UNCHANGED <<heap, vec, vec_call, rr, rt_call, cos,
                 tfc, fs, ed_call, pool, tu_call, par>>

\* a caller searches the lexical index
BMSearch(query, k) ==
  \E out \in {BM25Search(bm, query, k)} :
      /\ bm' = out.idx
      /\ bm_call' = [NoCall EXCEPT !.op = "search", !.query = query, !.k = k,
                                   !.raised = out.raised,
                                   !.result = out.result]
      /\ UNCHANGED <<heap, vec, vec_call, rr, rt_call, cos,
                     tfc, fs, ed_call, pool, tu_call, par>>

InitBM25 ==
  /\ heap = InitialHeap
  /\ bm = BM25Empty
  /\ bm_call = NoCall
  /\ vec = <<>>
  /\ vec_call = <<>>
  /\ rr = FALSE
  /\ rt_call = <<>>
  /\ cos = NoCos
  /\ tfc = <<>>
  /\ fs = <<>>
  /\ ed_call = <<>>
  /\ pool = <<>>
  /\ tu_call = <<>>
  /\ par = <<>>

NextBM25 ==
  \/ \E d \in DocArgs : BMAddDocument(d)
  \/ \E query \in QueryArgs, k \in KArgs : BMSearch(query, k)

SpecBM25 == InitBM25 /\ [][NextBM25]_vars

(***************************************************************************)
(* Claims about BM25Index, checked under SpecBM25.                         *)
(***************************************************************************)
BMSearched == bm_call.op = "search"
BMSearchReturned == bm_call.op = "search" /\ bm_call.raised = "none"
BMQueryTokens == DefaultTokenizer(bm_call.query.chars)
DocHasToken(d, t) == t \in Range(DefaultTokenizer(heap[d].content))
PositionsWith(t) ==
  {p \in DOMAIN bm.documents : DocHasToken(bm.documents[p], t)}

\* raw BM25 score of a stored document for the last query (equal for every
\* position that holds the same object)
RawAt(p) == ComputeBM25Score(bm, BMQueryTokens, p)
RawOf(d) == RawAt(CHOOSE p \in DOMAIN bm.documents : bm.documents[p] = d)
ScoredPositions == {p \in DOMAIN bm.documents : RawAt(p) > ScoreEps}

\* C4: BM25Index.search returns only documents that contain at least one
\* token of the query; when the query's only token occurs in exactly one
\* stored document of a nonempty index, that document is the sole result.
C4_OnlyMatchingDocuments ==
  BMSearchReturned =>
    /\ \A i \in DOMAIN bm_call.result :
         \E t \in Range(BMQueryTokens) : DocHasToken(bm_call.result[i].doc, t)
    /\ \A t \in Range(BMQueryTokens) :
         (Range(BMQueryTokens) = {t} /\ Cardinality(PositionsWith(t)) = 1)
         => /\ Len(bm_call.result) = 1
            /\ \A p \in PositionsWith(t) :
                 bm_call.result[1].doc = bm.documents[p]

C4_Witness ==
  /\ BMSearchReturned
  /\ Len(bm.documents) >= 2
  /\ \E t \in Range(BMQueryTokens) :
       Range(BMQueryTokens) = {t} /\ Cardinality(PositionsWith(t)) = 1
  /\ Len(bm_call.result) = 1

\* C5: BM25Index.search returns at most k pairs, namely the k documents of
\* highest raw score among those above the threshold, ordered by transformed
\* score ascending, which is raw score descending.
C5_TopKBestFirst ==
  (BMSearchReturned /\ bm.documents # <<>>) =>
    LET res == bm_call.result
        k == bm_call.k
        n == Cardinality(ScoredPositions)
    IN  /\ Len(res) <= k
        /\ Len(res) = (IF n < k THEN n ELSE k)
        /\ \A i \in DOMAIN res :
             /\ \E p \in ScoredPositions : bm.documents[p] = res[i].doc
             /\ Cardinality({j \in DOMAIN res : res[j].doc = res[i].doc})
                  <= Count(bm.documents, res[i].doc)
        /\ \A i, j \in DOMAIN res :
             i < j => /\ res[i].score <= res[j].score
                      /\ RawOf(res[i].doc) >= RawOf(res[j].doc)
        /\ \A p \in ScoredPositions :
             Cardinality({j \in DOMAIN res : res[j].doc = bm.documents[p]})
               < Count(bm.documents, bm.documents[p])
             => \A i \in DOMAIN res : RawOf(res[i].doc) >= RawAt(p)

C5_Witness ==
  /\ BMSearchReturned
  /\ Cardinality(ScoredPositions) > bm_call.k
  /\ Len(bm_call.result) = 2
  /\ RawOf(bm_call.result[1].doc) > RawOf(bm_call.result[2].doc)
  /\ bm_call.result[1].score < bm_call.result[2].score
  /\ \E p \in ScoredPositions : RawAt(p) < RawOf(bm_call.result[2].doc)

\* text without any word character (claim-side, independent of the tokenizer)
NoWordChar(text) == \A i \in DOMAIN text : text[i] \in {" ", "-"}
AllStoredDocsBlank ==
  /\ bm.documents # <<>>
  /\ \A p \in DOMAIN bm.documents : NoWordChar(heap[bm.documents[p]].content)
BMEmptyResultCase ==
  \/ bm.documents = <<>>
  \/ bm_call.query.isStr /\ NoWordChar(bm_call.query.chars)
  \/ AllStoredDocsBlank

\* C6 as stated: search returns an empty list and raises no error when the
\* index holds no documents, the tokenized query is empty, or the average
\* document length is zero.
C6_AsStated ==
  (BMSearched /\ BMEmptyResultCase)
  => bm_call.raised = "none" /\ bm_call.result = <<>>

\* C6 amended: for a string query_text and k > 0, search returns an empty
\* list and raises no error when the index holds no documents, the tokenized
\* query is empty, or the average document length is zero.
C6_EmptyResultForValidArgs ==
  (BMSearched /\ bm_call.query.isStr /\ bm_call.k > 0 /\ BMEmptyResultCase)
  => bm_call.raised = "none" /\ bm_call.result = <<>>

C6_Witness ==
  /\ BMSearched
  /\ AllStoredDocsBlank
  /\ Len(bm.documents) >= 2
  /\ bm_call.query.isStr /\ ~NoWordChar(bm_call.query.chars)
  /\ bm_call.k > 0
  /\ bm_call.raised = "none" /\ bm_call.result = <<>>

\* C7: search raises whenever query_text is not a string or k <= 0, in every
\* state of the index (whether or not any document has been added).
C7_InvalidArgsAlwaysRaise ==
  (BMSearched /\ (~bm_call.query.isStr \/ bm_call.k <= 0))
  => bm_call.raised # "none"

BMAddFailed == bm_call.op = "add_document" /\ bm_call.raised # "none"
BMAddSucceeded == bm_call.op = "add_document" /\ bm_call.raised = "none"
ShapeInvalid(d) ==
  \/ d = NotADict
  \/ ~heap[d].hasContent
  \/ ~heap[d].contentIsStr
IsPrefixOf(s, t) == Len(s) <= Len(t) /\ SubSeq(t, 1, Len(s)) = s

\* C8: add_document raises exactly when the argument is not a mapping, has
\* no content key or has non-string content; a failing call leaves every
\* field of the index unchanged; a successful call appends exactly one entry
\* to each parallel list and marks the statistics stale.
C8_AddDocumentAllOrNothing ==
  [][ /\ bm_call'.op = "add_document"
        => (bm_call'.raised # "none" <=> ShapeInvalid(bm_call'.doc))
      /\ BMAddFailed' => bm' = bm
      /\ BMAddSucceeded' =>
           /\ bm'.documents = Append(bm.documents, bm_call'.doc)
           /\ Len(bm'.corpus_tokens) = Len(bm.corpus_tokens) + 1
           /\ IsPrefixOf(bm.corpus_tokens, bm'.corpus_tokens)
           /\ Len(bm'.doc_len) = Len(bm.doc_len) + 1
           /\ IsPrefixOf(bm.doc_len, bm'.doc_len)
           /\ ~bm'.index_built
    ]_vars

C8_Witness ==
  /\ BMAddFailed
  /\ bm_call.doc # NotADict
  /\ heap[bm_call.doc].hasContent
  /\ bm.documents # <<>>
  /\ bm.index_built

(***************************************************************************)
(* VectorIndex  (src/rag/VectorDB/VectorIndex.py)                          *)
(***************************************************************************)
\* what a caller (or the embedding function) may supply as a vector:
\* isNums is isinstance(vector, list) and every item a number
VectorArgs ==
  {[isNums |-> FALSE, v |-> <<>>],
   [isNums |-> TRUE, v |-> <<>>],
   [isNums |-> TRUE, v |-> <<0, 0>>],
   [isNums |-> TRUE, v |-> <<1, 0>>],
   [isNums |-> TRUE, v |-> <<0, 1>>]}

\* what the embedding function may return for a text
EmbedOutputs == {a \in VectorArgs : a.isNums /\ a.v # <<0, 0>>}

\* the documents handed to the vector index
VecDocArgs == {NotADict, 1, 5, 6}

\* the constructions of VectorIndex that are explored
VecConfigs ==
  {[metric |-> "cosine", has_embedding |-> TRUE],
   [metric |-> "euclidean", has_embedding |-> FALSE]}

\* _vector_dim = None
NoDim == [isNone |-> TRUE, dim |-> 0]

VectorIndexNew(metric, has_embedding) ==
  [vectors |-> <<>>, documents |-> <<>>, vector_dim |-> NoDim,
   distance_metric |-> metric, has_embedding_fn |-> has_embedding]

\* floor(sqrt(n)) by bisection, lo * lo <= n < hi * hi
RECURSIVE ISqrtBetween(_, _, _)
ISqrtBetween(n, lo, hi) ==
  IF hi - lo <= 1 THEN lo
  ELSE LET mid == (lo + hi) \div 2
       IN  IF mid * mid <= n THEN ISqrtBetween(n, mid, hi)
           ELSE ISqrtBetween(n, lo, mid)

\* math.sqrt of a natural number, in fixed point
SqrtNat(n) == ISqrtBetween(n * Scale * Scale, 0, (n + 1) * Scale)

\* _dot_product
DotProduct(vec1, vec2) ==
  SumSeq([i \in DOMAIN vec1 |-> vec1[i] * vec2[i]])

\* _magnitude
Magnitude(v) == SqrtNat(SumSeq([i \in DOMAIN v |-> v[i] * v[i]]))

\* _euclidean_distance
EuclideanDistance(vec1, vec2) ==
  SqrtNat(SumSeq([i \in DOMAIN vec1 |->
                    (vec1[i] - vec2[i]) * (vec1[i] - vec2[i])]))

Clamp(x, lo, hi) == IF x < lo THEN lo ELSE IF x > hi THEN hi ELSE x

\* A float operation returns one of the two representable neighbours of
\* its exact result; which one depends on the operands, so the direction is
\* a choice made per kind of operation.
RoundingModes == {"down", "up"}

Roundings == [sqrt : RoundingModes, mul : RoundingModes, div : RoundingModes]

RoundDown == [sqrt |-> "down", mul |-> "down", div |-> "down"]

\* a / b for b > 0, rounded to a neighbour
DivRound(a, b, mode) ==
  IF mode = "down" THEN a \div b ELSE 0 - ((0 - a) \div b)

\* math.sqrt of a natural number, rounded to a neighbour
SqrtRound(n, mode) ==
  LET lo == SqrtNat(n)
  IN  IF mode = "down" \/ lo * lo = n * Scale * Scale THEN lo ELSE lo + 1

\* _magnitude under a rounding
MagnitudeRounded(v, mode) ==
  SqrtRound(SumSeq([i \in DOMAIN v |-> v[i] * v[i]]), mode)

\* the clamp of line 134 left out
CosineDistanceNoClamp(vec1, vec2, r) ==
  LET mag1 == MagnitudeRounded(vec1, r.sqrt)
      mag2 == MagnitudeRounded(vec2, r.sqrt)
  IN  IF mag1 = 0 /\ mag2 = 0 THEN 0
      ELSE IF mag1 = 0 \/ mag2 = 0 THEN Scale
      ELSE Scale - DivRound(DotProduct(vec1, vec2) * Scale * Scale,
                            DivRound(mag1 * mag2, Scale, r.mul), r.div)

\* _cosine_distance under a rounding r of its float operations
CosineDistanceRounded(vec1, vec2, r) ==
  LET mag1 == MagnitudeRounded(vec1, r.sqrt)
      mag2 == MagnitudeRounded(vec2, r.sqrt)
  IN  IF mag1 = 0 /\ mag2 = 0 THEN 0
      ELSE IF mag1 = 0 \/ mag2 = 0 THEN Scale
      ELSE LET dot_prod == DotProduct(vec1, vec2)
               cosine_similarity ==
                 DivRound(dot_prod * Scale * Scale,
                          DivRound(mag1 * mag2, Scale, r.mul), r.div)
           IN  Scale - Clamp(cosine_similarity, 0 - Scale, Scale)

\* _cosine_distance as the indexes use it
CosineDistance(vec1, vec2) == CosineDistanceRounded(vec1, vec2, RoundDown)

\* add_vector: the exception raised ("none" when the call succeeds)
AddVectorRaises(idx, h, vector, d) ==
  IF ~vector.isNums THEN "TypeError"
  ELSE IF ~IsDict(d) THEN "TypeError"
  ELSE IF ~h[d].hasContent THEN "ValueError"
  ELSE IF idx.vectors # <<>> /\ Len(vector.v) # idx.vector_dim.dim
  THEN "ValueError"
  ELSE "none"

\* vectors keep the old dimensionality check but the comparison is dropped
AddVectorNoDimCheck(idx, h, vector, d) ==
  IF ~vector.isNums \/ ~IsDict(d) THEN idx
  ELSE IF ~h[d].hasContent THEN idx
  ELSE [idx EXCEPT
          !.vector_dim = IF idx.vectors = <<>>
                         THEN [isNone |-> FALSE, dim |-> Len(vector.v)]
                         ELSE @,
          !.vectors = Append(@, vector.v),
          !.documents = Append(@, d)]

\* the dimensionality overwritten before the mismatch is detected
AddVectorSetsDimFirst(idx, h, vector, d) ==
  IF ~vector.isNums \/ ~IsDict(d) THEN idx
  ELSE IF ~h[d].hasContent THEN idx
  ELSE IF idx.vectors # <<>> /\ Len(vector.v) # idx.vector_dim.dim
  THEN [idx EXCEPT !.vector_dim = [isNone |-> FALSE, dim |-> Len(vector.v)]]
  ELSE [idx EXCEPT
          !.vector_dim = [isNone |-> FALSE, dim |-> Len(vector.v)],
          !.vectors = Append(@, vector.v),
          !.documents = Append(@, d)]

\* add_vector: the index after the call
AddVector(idx, h, vector, d) ==
  IF AddVectorRaises(idx, h, vector, d) # "none" THEN idx
  ELSE [idx EXCEPT
          !.vector_dim = IF idx.vectors = <<>>
                         THEN [isNone |-> FALSE, dim |-> Len(vector.v)]
                         ELSE @,
          !.vectors = Append(@, vector.v),
          !.documents = Append(@, d)]

\* add_document: the exception raised; `vector` is what embedding_fn returns
VecAddDocumentRaises(idx, h, d, vector) ==
  IF ~idx.has_embedding_fn THEN "ValueError"
  ELSE IF ~IsDict(d) THEN "TypeError"
  ELSE IF ~h[d].hasContent THEN "ValueError"
  ELSE IF ~h[d].contentIsStr THEN "TypeError"
  ELSE AddVectorRaises(idx, h, vector, d)

\* add_document: the index after the call
VecAddDocument(idx, h, d, vector) ==
  IF VecAddDocumentRaises(idx, h, d, vector) # "none" THEN idx
  ELSE AddVector(idx, h, vector, d)

\* the scan of search: (distance, document) for every stored vector
Distances(idx, query_vector) ==
  [i \in DOMAIN idx.vectors |->
     [key |-> IF idx.distance_metric = "cosine"
              THEN CosineDistance(query_vector, idx.vectors[i])
              ELSE EuclideanDistance(query_vector, idx.vectors[i]),
      doc |-> idx.documents[i]]]

\* the k first stored vectors, the sort by distance left out
VecSearchNoSort(idx, query, k) ==
  IF idx.vectors = <<>> THEN [raised |-> "none", result |-> <<>>]
  ELSE IF query.kind = "str" /\ ~idx.has_embedding_fn
  THEN [raised |-> "ValueError", result |-> <<>>]
  ELSE IF query.kind = "other"
  THEN [raised |-> "TypeError", result |-> <<>>]
  ELSE IF idx.vector_dim.isNone THEN [raised |-> "none", result |-> <<>>]
  ELSE IF Len(query.v) # idx.vector_dim.dim
  THEN [raised |-> "ValueError", result |-> <<>>]
  ELSE IF k <= 0 THEN [raised |-> "ValueError", result |-> <<>>]
  ELSE LET top == Take(Distances(idx, query.v), k)
       IN  [raised |-> "none",
            result |-> [i \in DOMAIN top |->
                          [doc |-> top[i].doc, score |-> top[i].key]]]

\* search: [raised, result]; query is [kind, v] with kind "str", "nums" or
\* "other"; for a string query v is what embedding_fn returns
VecSearch(idx, query, k) ==
  IF idx.vectors = <<>> THEN [raised |-> "none", result |-> <<>>]
  ELSE IF query.kind = "str" /\ ~idx.has_embedding_fn
  THEN [raised |-> "ValueError", result |-> <<>>]
  ELSE IF query.kind = "other"
  THEN [raised |-> "TypeError", result |-> <<>>]
  ELSE IF idx.vector_dim.isNone THEN [raised |-> "none", result |-> <<>>]
  ELSE IF Len(query.v) # idx.vector_dim.dim
  THEN [raised |-> "ValueError", result |-> <<>>]
  ELSE IF k <= 0 THEN [raised |-> "ValueError", result |-> <<>>]
  ELSE LET distances == SortAsc(Distances(idx, query.v))
           top == Take(distances, k)
       IN  [raised |-> "none",
            result |-> [i \in DOMAIN top |->
                          [doc |-> top[i].doc, score |-> top[i].key]]]

\* queries handed to VectorIndex.search
VecQueryArgs ==
  {[kind |-> "other", v |-> <<>>]}
  \cup {[kind |-> "nums", v |-> a.v] : a \in {x \in VectorArgs : x.isNums}}
  \cup {[kind |-> "str", v |-> a.v] : a \in EmbedOutputs}

NoVecCall == [op |-> "none", doc |-> NotADict,
              vector |-> [isNums |-> FALSE, v |-> <<>>],
              query |-> [kind |-> "other", v |-> <<>>], k |-> 0,
              raised |-> "none", result |-> <<>>]

\* a caller adds a precomputed vector
VIAddVector(vector, d) ==
  /\ AddVectorRaises(vec, heap, vector, d) = "none" => Len(vec.vectors) < MaxVecs
  /\ vec' = AddVector(vec, heap, vector, d)
  /\ vec_call' = [NoVecCall EXCEPT !.op = "add_vector", !.doc = d,
                    !.vector = vector,
                    !.raised = AddVectorRaises(vec, heap, vector, d)]
  /\ UNCHANGED <<heap, bm, bm_call, rr, rt_call, cos,
                 tfc, fs, ed_call, pool, tu_call, par>>

\* a caller adds a document; embedding_fn returns `vector`
VIAddDocument(d, vector) ==
  /\ VecAddDocumentRaises(vec, heap, d, vector) = "none"
       => Len(vec.vectors) < MaxVecs
  /\ vec' = VecAddDocument(vec, heap, d, vector)
  /\ vec_call' = [NoVecCall EXCEPT !.op = "add_document", !.doc = d,
                    !.vector = vector,
                    !.raised = VecAddDocumentRaises(vec, heap, d, vector)]
  /\ UNCHANGED <<heap, bm, bm_call, rr, rt_call, cos,
                 tfc, fs, ed_call, pool, tu_call, par>>

\* a caller searches the vector index
VISearch(query, k) ==
  \E out \in {VecSearch(vec, query, k)} :
      /\ vec' = vec
      /\ vec_call' = [NoVecCall EXCEPT !.op = "search", !.query = query,
                        !.k = k, !.raised = out.raised,
                        !.result = out.result]
      /\ UNCHANGED <<heap, bm, bm_call, rr, rt_call, cos,
                     tfc, fs, ed_call, pool, tu_call, par>>

InitVec ==
  /\ heap = InitialHeap
  /\ bm = BM25Empty
  /\ bm_call = NoCall
  /\ \E c \in VecConfigs : vec = VectorIndexNew(c.metric, c.has_embedding)
  /\ vec_call = NoVecCall
  /\ rr = FALSE
  /\ rt_call = <<>>
  /\ cos = NoCos
  /\ tfc = <<>>
  /\ fs = <<>>
  /\ ed_call = <<>>
  /\ pool = <<>>
  /\ tu_call = <<>>
  /\ par = <<>>

NextVec ==
  \/ \E vector \in VectorArgs, d \in VecDocArgs : VIAddVector(vector, d)
  \/ \E d \in VecDocArgs, vector \in EmbedOutputs : VIAddDocument(d, vector)
  \/ \E query \in VecQueryArgs, k \in KArgs : VISearch(query, k)

SpecVec == InitVec /\ [][NextVec]_vars

(***************************************************************************)
(* _cosine_distance as a function of its two arguments.                    *)
(***************************************************************************)
\* coordinates of the vectors handed to _cosine_distance
CosCoords == {0 - 1, 0, 1, 2}

CosArgs == {<<x, y>> : x \in CosCoords, y \in CosCoords}

InitCos ==
  /\ heap = InitialHeap
  /\ bm = BM25Empty
  /\ bm_call = NoCall
  /\ vec = VectorIndexNew("cosine", FALSE)
  /\ vec_call = NoVecCall
  /\ rr = FALSE
  /\ rt_call = <<>>
  /\ \E v1 \in CosArgs, v2 \in CosArgs :
       cos = [NoCos EXCEPT !.vec1 = v1, !.vec2 = v2]
  /\ tfc = <<>>
  /\ fs = <<>>
  /\ ed_call = <<>>
  /\ pool = <<>>
  /\ tu_call = <<>>
  /\ par = <<>>

\* self._cosine_distance(vec1, vec2)
CosApply(r) ==
  /\ cos' = [cos EXCEPT !.called = TRUE,
                        !.dist = CosineDistanceRounded(cos.vec1, cos.vec2, r)]
  /\ UNCHANGED <<heap, bm, bm_call, vec, vec_call, rr, rt_call,
                 tfc, fs, ed_call, pool, tu_call, par>>

NextCos == \E r \in Roundings : CosApply(r)

SpecCos == InitCos /\ [][NextCos]_vars

(***************************************************************************)
(* Claims about VectorIndex, checked under SpecVec.                        *)
(***************************************************************************)
\* C9: in every reachable state of a VectorIndex every stored vector has the
\* dimensionality established by the first inserted vector, and the vector
\* list and the document list have the same length.
C9_UniformDimension ==
  /\ Len(vec.vectors) = Len(vec.documents)
  /\ vec.vectors # <<>> =>
       /\ ~vec.vector_dim.isNone
       /\ vec.vector_dim.dim = Len(vec.vectors[1])
       /\ \A i \in DOMAIN vec.vectors :
            Len(vec.vectors[i]) = vec.vector_dim.dim

C9_Witness ==
  /\ Len(vec.vectors) >= 2
  /\ vec_call.op \in {"add_vector", "add_document"}
  /\ vec_call.raised = "ValueError"
  /\ vec_call.vector.isNums
  /\ Len(vec_call.vector.v) # vec.vector_dim.dim

VecAddVectorCalled == vec_call.op = "add_vector"
DimMismatch(idx, vector) ==
  /\ vector.isNums
  /\ ~idx.vector_dim.isNone
  /\ Len(vector.v) # idx.vector_dim.dim

\* C10: add_vector with a vector whose length differs from the established
\* dimensionality raises an error and leaves the stored vectors, the stored
\* documents and the established dimensionality unchanged.
C10_MismatchRejected ==
  [][ (VecAddVectorCalled' /\ DimMismatch(vec, vec_call'.vector))
      => /\ vec_call'.raised # "none"
         /\ vec'.vectors = vec.vectors
         /\ vec'.documents = vec.documents
         /\ vec'.vector_dim = vec.vector_dim
    ]_vars

C10_Witness ==
  /\ VecAddVectorCalled
  /\ DimMismatch(vec, vec_call.vector)
  /\ vec_call.doc # NotADict
  /\ heap[vec_call.doc].hasContent
  /\ vec_call.raised = "ValueError"
  /\ Len(vec.vectors) >= 1

\* C11: add_vector rejects every document whose shape is invalid under the
\* rule of the lexical index (not a mapping, no content key, non-string
\* content), so every document stored in a VectorIndex has a string content.
C11_StoredContentIsString ==
  \A i \in DOMAIN vec.documents :
    /\ IsDict(vec.documents[i])
    /\ heap[vec.documents[i]].hasContent
    /\ heap[vec.documents[i]].contentIsStr

VecSearchCalled == vec_call.op = "search"

\* the arguments of the last search that the contract of search rejects
VecSearchArgsInvalid ==
  \/ vec_call.k <= 0
  \/ vec_call.query.kind = "str" /\ ~vec.has_embedding_fn
  \/ /\ vec_call.query.kind \in {"nums", "str"}
     /\ ~vec.vector_dim.isNone
     /\ Len(vec_call.query.v) # vec.vector_dim.dim

\* C12: search raises an error whenever k <= 0, whenever the query vector's
\* length differs from the established dimensionality, and whenever a string
\* query arrives with no embedding function configured, in every state of
\* the index.
C12_InvalidSearchAlwaysRaises ==
  (VecSearchCalled /\ VecSearchArgsInvalid) => vec_call.raised # "none"

\* the last search had a valid query and k on a nonempty index
VecSearchValid ==
  /\ VecSearchCalled
  /\ vec.vectors # <<>>
  /\ vec_call.k > 0
  /\ \/ vec_call.query.kind = "nums"
     \/ vec_call.query.kind = "str" /\ vec.has_embedding_fn
  /\ Len(vec_call.query.v) = vec.vector_dim.dim

\* distance of the last query to the vector stored at position p
DistTo(p) ==
  IF vec.distance_metric = "cosine"
  THEN CosineDistance(vec_call.query.v, vec.vectors[p])
  ELSE EuclideanDistance(vec_call.query.v, vec.vectors[p])

\* C13: search on a nonempty index with a valid query returns exactly
\* min(k, number of stored vectors) (document, distance) pairs, the stored
\* documents with the smallest distances under the configured metric,
\* ordered by distance ascending; under the Euclidean metric a stored vector
\* equal to the query is returned first with distance 0.
C13_NearestFirst ==
  VecSearchValid =>
    LET res == vec_call.result
        n == Len(vec.vectors)
    IN  /\ vec_call.raised = "none"
        /\ Len(res) = (IF vec_call.k < n THEN vec_call.k ELSE n)
        /\ \A i, j \in DOMAIN res : i < j => res[i].score <= res[j].score
        /\ \E f \in [DOMAIN res -> DOMAIN vec.vectors] :
             /\ \A i, j \in DOMAIN res : i # j => f[i] # f[j]
             /\ \A i \in DOMAIN res :
                  /\ res[i].doc = vec.documents[f[i]]
                  /\ res[i].score = DistTo(f[i])
             /\ \A p \in DOMAIN vec.vectors \ {f[i] : i \in DOMAIN res} :
                  \A i \in DOMAIN res : res[i].score <= DistTo(p)
        /\ ( /\ vec.distance_metric = "euclidean"
             /\ \E p \in DOMAIN vec.vectors :
                  vec.vectors[p] = vec_call.query.v )
           => /\ res[1].score = 0
              /\ \E p \in DOMAIN vec.vectors :
                   /\ vec.vectors[p] = vec_call.query.v
                   /\ vec.documents[p] = res[1].doc

C13_Witness ==
  /\ VecSearchValid
  /\ vec.distance_metric = "euclidean"
  /\ Len(vec.vectors) = 2
  /\ vec.documents[1] # vec.documents[2]
  /\ vec.vectors[2] = vec_call.query.v
  /\ vec.vectors[1] # vec_call.query.v
  /\ vec_call.k = 1
  /\ vec_call.result = <<[doc |-> vec.documents[2], score |-> 0]>>

IsZeroVector(v) == \A i \in DOMAIN v : v[i] = 0

\* what C14 says of every pair of vectors but the identical nonzero ones
CosineSpecialCases ==
  /\ ( /\ ~IsZeroVector(cos.vec1) /\ ~IsZeroVector(cos.vec2)
       /\ DotProduct(cos.vec1, cos.vec2) = 0 ) => cos.dist = Scale
  /\ (IsZeroVector(cos.vec1) /\ IsZeroVector(cos.vec2)) => cos.dist = 0
  /\ (IsZeroVector(cos.vec1) # IsZeroVector(cos.vec2)) => cos.dist = Scale
  /\ 0 <= cos.dist /\ cos.dist <= 2 * Scale

\* C14 as stated: the cosine distance is 0 for two identical nonzero
\* vectors, 1 for two orthogonal nonzero vectors, exactly 0 when both have
\* zero magnitude, exactly 1 when exactly one has, and always in [0, 2].
C14_AsStated ==
  cos.called =>
    /\ (cos.vec1 = cos.vec2 /\ ~IsZeroVector(cos.vec1)) => cos.dist = 0
    /\ CosineSpecialCases

\* C14: the cosine distance of two identical nonzero vectors is 0 up to the
\* rounding of the float operations (at most 2 units of the last place kept
\* here); it is 1 for two orthogonal nonzero vectors, exactly 0 when both
\* have zero magnitude, exactly 1 when exactly one has, and always in [0, 2].
C14_CosineDistanceUpToRounding ==
  cos.called =>
    /\ (cos.vec1 = cos.vec2 /\ ~IsZeroVector(cos.vec1)) => cos.dist <= 2
    /\ CosineSpecialCases

C14_Witness ==
  /\ cos.called
  /\ cos.vec1 = <<1, 1>> /\ cos.vec2 = <<1, 1>>
  /\ cos.dist > 0 /\ cos.dist <= 2

(***************************************************************************)
(* Retriever  (src/rag/retriver/MultipleIndex.py), built as in             *)
(* src/rag_usage.py over a BM25Index and a VectorIndex, in that order.     *)
(***************************************************************************)
\* the strings random.choices may produce for a missing id
GenIds == {"g1", "g2"}

\* embedding_fn: a case-sensitive embedding of fixed dimensionality,
\* <<number of "a", number of other letters>>
Embed(text) ==
  [isNums |-> TRUE,
   v |-> <<Cardinality({i \in DOMAIN text : text[i] = "a"}),
           Cardinality({i \in DOMAIN text : text[i] \in {"b", "A", "B"}})>>]

\* documents handed to Retriever.add_document
RetDocArgs == {NotADict, 1, 2, 3, 6}

\* query_text values handed to Retriever.search
RetQueryArgs ==
  {[isStr |-> TRUE, chars |-> <<"B">>],
   [isStr |-> TRUE, chars |-> <<"a">>],
   [isStr |-> FALSE, chars |-> <<>>]}

\* k_rrf = 60, the default of Retriever.search
DefaultKRrf == 60

\* (query_text, k, k_rrf) handed to Retriever.search: the valid queries with
\* every k and the default k_rrf, one search with k_rrf = 0, and one call
\* for each argument check
RetSearchArgs ==
  {[query |-> q, k |-> k, k_rrf |-> DefaultKRrf] :
     q \in {x \in RetQueryArgs : x.isStr}, k \in 1 .. MaxK}
  \cup {[query |-> [isStr |-> TRUE, chars |-> <<"a">>],
         k |-> MaxK, k_rrf |-> 0],
        [query |-> [isStr |-> FALSE, chars |-> <<>>],
         k |-> 1, k_rrf |-> DefaultKRrf],
        [query |-> [isStr |-> TRUE, chars |-> <<"B">>],
         k |-> 0, k_rrf |-> DefaultKRrf],
        [query |-> [isStr |-> TRUE, chars |-> <<"B">>],
         k |-> 1, k_rrf |-> 0 - 1]}

\* lists of identifiers the reranker may answer with
RerankOutputs ==
  {<<>>, <<"g1", "zz", "d1">>, <<"d1", "g1">>, <<"g2", "d1", "d1">>}

\* over-fetch factor of the per-index searches
OverFetch == 5

DocsOf(results) == [i \in DOMAIN results |-> results[i].doc]

\* documents in the order doc_ranks first sees them
RECURSIVE FirstSeen(_, _)
FirstSeen(docs, seen) ==
  IF docs = <<>> THEN <<>>
  ELSE IF Head(docs) \in seen THEN FirstSeen(Tail(docs), seen)
  ELSE <<Head(docs)>> \o FirstSeen(Tail(docs), seen \cup {Head(docs)})

RECURSIVE Flatten(_)
Flatten(lists) ==
  IF lists = <<>> THEN <<>> ELSE Head(lists) \o Flatten(Tail(lists))

\* doc_ranks[id(doc)]["ranks"][idx]: the last rank written for doc in list
\* idx, 0 standing for float("inf")
RankIn(list, d) ==
  IF \E p \in DOMAIN list : list[p] = d
  THEN CHOOSE p \in DOMAIN list :
         list[p] = d /\ \A q \in DOMAIN list : list[q] = d => q <= p
  ELSE 0

\* denominator shared by the fused scores of one search
RECURSIVE RrfDen(_, _)
RrfDen(k_rrf, maxRank) ==
  IF maxRank = 0 THEN 1 ELSE (k_rrf + maxRank) * RrfDen(k_rrf, maxRank - 1)

MaxLen(lists) ==
  IF lists = <<>> THEN 0
  ELSE CHOOSE n \in {Len(lists[i]) : i \in DOMAIN lists} :
         \A i \in DOMAIN lists : Len(lists[i]) <= n

\* only the best rank counts instead of the sum
CalcRrfScoreBestOnly(ranks, k_rrf, den) ==
  LET terms == {den \div (k_rrf + ranks[i]) :
                  i \in {j \in DOMAIN ranks : ranks[j] # 0}}
  IN  IF terms = {} THEN 0
      ELSE CHOOSE t \in terms : \A u \in terms : u <= t

\* calc_rrf_score: numerator over den of sum(1 / (k_rrf + r))
CalcRrfScore(ranks, k_rrf, den) ==
  SumSeq([i \in DOMAIN ranks |->
            IF ranks[i] = 0 THEN 0 ELSE den \div (k_rrf + ranks[i])])

\* scored_docs filtered to score > 0, in doc_ranks order
ScoredDocs(lists, k_rrf) ==
  LET order == FirstSeen(Flatten(lists), {})
      den == RrfDen(k_rrf, MaxLen(lists))
      scored == [i \in DOMAIN order |->
                   [key |-> CalcRrfScore(
                              [idx \in DOMAIN lists |->
                                 RankIn(lists[idx], order[i])],
                              k_rrf, den),
                    doc |-> order[i]]]
  IN  SelectSeq(scored, LAMBDA x : x.key > 0)

\* the fused candidates left unsorted
FusedNoSort(lists, k_rrf) == ScoredDocs(lists, k_rrf)

\* filtered_docs after sort(key=score, reverse=True)
Fused(lists, k_rrf) == SortDesc(ScoredDocs(lists, k_rrf))

AsScore(key, lists, k_rrf) ==
  [num |-> key, den |-> RrfDen(k_rrf, MaxLen(lists))]

\* an id drawn for every candidate, the ones that have an id included
AssignIdsRegenerates(h, docs, gen) ==
  [o \in DOMAIN h |->
     IF o \in Range(docs)
     THEN [h[o] EXCEPT !.hasId = TRUE, !.id = gen[o]]
     ELSE h[o]]

\* candidates lacking an id get a generated one (lines 134-140)
AssignIds(h, docs, gen) ==
  [o \in DOMAIN h |->
     IF o \in Range(docs) /\ ~h[o].hasId
     THEN [h[o] EXCEPT !.hasId = TRUE, !.id = gen[o]]
     ELSE h[o]]

\* doc_lookup = {doc["id"]: doc for doc in docs_only}: the last one wins
LookupDoc(h, docs, doc_id) ==
  LET ps == {p \in DOMAIN docs : h[docs[p]].id = doc_id}
  IN  IF ps = {} THEN NotADict
      ELSE docs[CHOOSE p \in ps : \A q \in ps : q <= p]

\* the candidates kept in fused order, whatever order the reranker gave
RerankKeepsFusedOrder(result, h, reranked_ids) ==
  SelectSeq(result, LAMBDA x : h[x.doc].id \in Range(reranked_ids))

\* lines 142-154: map the reranker's identifiers back to the candidates
Rerank(result, h, reranked_ids) ==
  LET docs_only == DocsOf(result)
      hits == SelectSeq(reranked_ids,
                        LAMBDA i : LookupDoc(h, docs_only, i) # NotADict)
  IN  [i \in DOMAIN hits |->
         LET doc == LookupDoc(h, docs_only, hits[i])
             p == CHOOSE q \in DOMAIN result : result[q].doc = doc
         IN  [doc |-> doc, key |-> result[p].key]]

\* k_rrf = 0 rejected along with the negative values
RetSearchRaisesRejectsZero(query, k, k_rrf) ==
  IF ~query.isStr THEN "TypeError"
  ELSE IF k <= 0 THEN "ValueError"
  ELSE IF k_rrf <= 0 THEN "ValueError"
  ELSE "none"

\* lines 94-99: the exception the argument checks raise, or "none"
RetSearchRaises(query, k, k_rrf) ==
  IF ~query.isStr THEN "TypeError"
  ELSE IF k <= 0 THEN "ValueError"
  ELSE IF k_rrf < 0 THEN "ValueError"
  ELSE "none"

\* what a call of the reranker does: it raises, or returns identifiers
RerankOutcomes ==
  {[raised |-> FALSE, ids |-> o] : o \in RerankOutputs}
  \cup {[raised |-> TRUE, ids |-> <<>>]}

\* no reranker is called
NoRerank == [raised |-> FALSE, ids |-> <<>>]

\* an exception of the reranker caught, the fused order returned instead
FuseAndRerankFallsBack(lists, h, has_rr, k, k_rrf, rerank, gen) ==
  LET scored == Fused(lists, k_rrf)
      top == Take(scored, k)
      h2 == IF has_rr THEN AssignIds(h, DocsOf(top), gen) ELSE h
      final == IF has_rr /\ ~rerank.raised
               THEN Rerank(top, h2, rerank.ids) ELSE top
  IN  [raised |-> "none",
       result |-> [i \in DOMAIN final |->
                     [doc |-> final[i].doc,
                      score |-> AsScore(final[i].key, lists, k_rrf)]],
       scored |-> [i \in DOMAIN scored |->
                     [doc |-> scored[i].doc,
                      score |-> AsScore(scored[i].key, lists, k_rrf)]],
       heap |-> h2]

\* lines 105-156 of Retriever.search, given the per-index result lists:
\* gen holds the ids random.choices draws, rerank what the reranker does
FuseAndRerank(lists, h, has_rr, k, k_rrf, rerank, gen) ==
  LET scored == Fused(lists, k_rrf)
      top == Take(scored, k)
      h2 == IF has_rr THEN AssignIds(h, DocsOf(top), gen) ELSE h
      raises == has_rr /\ rerank.raised
      final == IF raises THEN <<>>
               ELSE IF has_rr THEN Rerank(top, h2, rerank.ids) ELSE top
  IN  [raised |-> IF raises THEN "RerankerError" ELSE "none",
       result |-> [i \in DOMAIN final |->
                     [doc |-> final[i].doc,
                      score |-> AsScore(final[i].key, lists, k_rrf)]],
       scored |-> [i \in DOMAIN scored |->
                     [doc |-> scored[i].doc,
                      score |-> AsScore(scored[i].key, lists, k_rrf)]],
       heap |-> h2]

NoRetCall == [op |-> "none", doc |-> NotADict, docs |-> <<>>,
              query |-> [isStr |-> FALSE, chars |-> <<>>], k |-> 0,
              k_rrf |-> 0, rr_raised |-> FALSE, reranked |-> <<>>,
              raised |-> "none",
              lists |-> <<>>, scored |-> <<>>, result |-> <<>>]

\* the document rebuilt from its id and content when the id is assigned
RetrieverAddDocumentDropsMeta(bmidx, vecidx, h, d, newid) ==
  IF ~IsDict(d)
  THEN [raised |-> "TypeError", heap |-> h, bm |-> bmidx, vec |-> vecidx]
  ELSE
    LET h1 == IF h[d].hasId THEN h
              ELSE [h EXCEPT ![d].hasId = TRUE, ![d].id = newid,
                             ![d].meta = ""]
        e1 == BM25AddRaises(h1, d)
        vector == Embed(h1[d].content)
        e2 == VecAddDocumentRaises(vecidx, h1, d, vector)
    IN  IF e1 # "none"
        THEN [raised |-> e1, heap |-> h1, bm |-> bmidx, vec |-> vecidx]
        ELSE [raised |-> e2, heap |-> h1,
              bm |-> BM25AddDocument(bmidx, h1, d),
              vec |-> VecAddDocument(vecidx, h1, d, vector)]

\* a fresh id written over the id the document already has
RetrieverAddDocumentOverwritesId(bmidx, vecidx, h, d, newid) ==
  IF ~IsDict(d)
  THEN [raised |-> "TypeError", heap |-> h, bm |-> bmidx, vec |-> vecidx]
  ELSE
    LET h1 == [h EXCEPT ![d].hasId = TRUE, ![d].id = newid]
        e1 == BM25AddRaises(h1, d)
        vector == Embed(h1[d].content)
        e2 == VecAddDocumentRaises(vecidx, h1, d, vector)
    IN  IF e1 # "none"
        THEN [raised |-> e1, heap |-> h1, bm |-> bmidx, vec |-> vecidx]
        ELSE [raised |-> e2, heap |-> h1,
              bm |-> BM25AddDocument(bmidx, h1, d),
              vec |-> VecAddDocument(vecidx, h1, d, vector)]

\* Retriever.add_document: [raised, heap, bm, vec]
RetrieverAddDocument(bmidx, vecidx, h, d, newid) ==
  IF ~IsDict(d)
  THEN [raised |-> "TypeError", heap |-> h, bm |-> bmidx, vec |-> vecidx]
  ELSE
    LET h1 == IF h[d].hasId THEN h
              ELSE [h EXCEPT ![d].hasId = TRUE, ![d].id = newid]
        e1 == BM25AddRaises(h1, d)
        vector == Embed(h1[d].content)
        e2 == VecAddDocumentRaises(vecidx, h1, d, vector)
    IN  IF e1 # "none"
        THEN [raised |-> e1, heap |-> h1, bm |-> bmidx, vec |-> vecidx]
        ELSE [raised |-> e2, heap |-> h1,
              bm |-> BM25AddDocument(bmidx, h1, d),
              vec |-> VecAddDocument(vecidx, h1, d, vector)]

\* a caller adds a document through the Retriever
RTAddDocument(d, newid) ==
  \E out \in {RetrieverAddDocument(bm, vec, heap, d, newid)} :
      /\ Len(bm.documents) < MaxRetDocs
      /\ heap' = out.heap
      /\ bm' = out.bm
      /\ vec' = out.vec
      /\ rt_call' = [NoRetCall EXCEPT !.op = "add_document", !.doc = d,
                                      !.raised = out.raised]
      /\ UNCHANGED <<bm_call, vec_call, rr, cos,
                     tfc, fs, ed_call, pool, tu_call, par>>

\* the public methods the two index classes define
BM25IndexMethods == {"add_document", "search"}
VectorIndexMethods == {"add_document", "add_vector", "search"}

\* lists of documents handed to Retriever.add_documents
RetDocLists == {<<>>, <<1, 2>>}

\* Retriever.add_documents: the lookup of index.add_documents on the first
\* index that lacks the method raises
RetrieverAddDocumentsRaises ==
  IF \E methods \in {BM25IndexMethods, VectorIndexMethods} :
       "add_documents" \notin methods
  THEN "AttributeError" ELSE "none"

\* a caller adds documents in bulk through the Retriever
RTAddDocuments(docs) ==
  /\ RetrieverAddDocumentsRaises # "none"
  /\ rt_call' = [NoRetCall EXCEPT !.op = "add_documents", !.docs = docs,
                                  !.raised = RetrieverAddDocumentsRaises]
  /\ UNCHANGED <<heap, bm, vec, bm_call, vec_call, rr, cos,
                 tfc, fs, ed_call, pool, tu_call, par>>

\* the candidates of a search that the reranker would receive without an id
LacksId(h, docs) == {o \in Range(docs) : ~h[o].hasId}

\* a caller searches through the Retriever; the reranker's answer and the
\* generated ids are chosen inside
RTSearch(query, k, k_rrf) ==
  LET call == [NoRetCall EXCEPT !.op = "search", !.query = query,
                                !.k = k, !.k_rrf = k_rrf]
      err == RetSearchRaises(query, k, k_rrf)
  IN
  /\ UNCHANGED <<vec, bm_call, vec_call, rr, cos,
                 tfc, fs, ed_call, pool, tu_call, par>>
  /\ IF err # "none"
     THEN /\ rt_call' = [call EXCEPT !.raised = err]
          /\ UNCHANGED <<heap, bm>>
     ELSE
       \E r1 \in {BM25Search(bm, query, k * OverFetch)} :
       \E r2 \in {VecSearch(vec, [kind |-> "str", v |-> Embed(query.chars).v],
                            k * OverFetch)} :
         /\ bm' = r1.idx
         /\ IF r1.raised # "none" \/ r2.raised # "none"
            THEN /\ rt_call' =
                      [call EXCEPT !.raised = IF r1.raised # "none"
                                              THEN r1.raised ELSE r2.raised]
                 /\ UNCHANGED heap
            ELSE
              \E lists \in {<<DocsOf(r1.result), DocsOf(r2.result)>>} :
              \E rerank \in (IF rr THEN RerankOutcomes ELSE {NoRerank}) :
              \E drawn \in [(IF rr THEN LacksId(heap, Flatten(lists))
                                    ELSE {}) -> GenIds] :
              \E gen \in {[o \in Objs |-> IF o \in DOMAIN drawn
                                           THEN drawn[o] ELSE "g1"]} :
              \E out \in {FuseAndRerank(lists, heap, rr, k, k_rrf,
                                        rerank, gen)} :
                /\ heap' = out.heap
                /\ rt_call' = [call EXCEPT !.rr_raised = rerank.raised,
                                 !.reranked = rerank.ids,
                                 !.raised = out.raised,
                                 !.lists = lists, !.scored = out.scored,
                                 !.result = out.result]

\* Retriever(bm25_index, vector_index, reranker_fn=None)
InitRet ==
  /\ heap = InitialHeap
  /\ bm = BM25Empty
  /\ bm_call = NoCall
  /\ vec = VectorIndexNew("cosine", TRUE)
  /\ vec_call = NoVecCall
  /\ rr = FALSE
  /\ rt_call = NoRetCall
  /\ cos = NoCos
  /\ tfc = <<>>
  /\ fs = <<>>
  /\ ed_call = <<>>
  /\ pool = <<>>
  /\ tu_call = <<>>
  /\ par = <<>>

\* Retriever(bm25_index, vector_index, reranker_fn=reranker_fn)
InitRerank ==
  /\ heap = InitialHeap
  /\ bm = BM25Empty
  /\ bm_call = NoCall
  /\ vec = VectorIndexNew("cosine", TRUE)
  /\ vec_call = NoVecCall
  /\ rr = TRUE
  /\ rt_call = NoRetCall
  /\ cos = NoCos
  /\ tfc = <<>>
  /\ fs = <<>>
  /\ ed_call = <<>>
  /\ pool = <<>>
  /\ tu_call = <<>>
  /\ par = <<>>

NextRet ==
  \/ \E d \in RetDocArgs :
       \E newid \in (IF IsDict(d) /\ ~heap[d].hasId
                     THEN GenIds ELSE {"g1"}) :
         RTAddDocument(d, newid)
  \/ \E a \in RetSearchArgs : RTSearch(a.query, a.k, a.k_rrf)
  \/ \E docs \in RetDocLists : RTAddDocuments(docs)

SpecRet == InitRet /\ [][NextRet]_vars

SpecRerank == InitRerank /\ [][NextRet]_vars

\* documents handed to Retriever.add_document, the one with a non-string
\* content and no id included
RetAddDocArgs == RetDocArgs \cup {5}

\* the vector index handed to the Retriever: new, or already holding a
\* vector of another dimensionality than the embeddings, added by add_vector
RetVectorIndexes ==
  {VectorIndexNew("cosine", TRUE),
   AddVector(VectorIndexNew("cosine", TRUE), InitialHeap,
             [isNums |-> TRUE, v |-> <<1>>], 1)}

InitRetAdd ==
  /\ heap = InitialHeap
  /\ bm = BM25Empty
  /\ bm_call = NoCall
  /\ vec \in RetVectorIndexes
  /\ vec_call = NoVecCall
  /\ rr = FALSE
  /\ rt_call = NoRetCall
  /\ cos = NoCos
  /\ tfc = <<>>
  /\ fs = <<>>
  /\ ed_call = <<>>
  /\ pool = <<>>
  /\ tu_call = <<>>
  /\ par = <<>>

NextRetAdd ==
  \E d \in RetAddDocArgs :
    \E newid \in (IF IsDict(d) /\ ~heap[d].hasId THEN GenIds ELSE {"g1"}) :
      RTAddDocument(d, newid)

\* a Retriever to which documents are added one by one
SpecRetAdd == InitRetAdd /\ [][NextRetAdd]_vars

(***************************************************************************)
(* Claims about Retriever.search, checked under SpecRet.                   *)
(***************************************************************************)
RetSearchReturned == rt_call.op = "search" /\ rt_call.raised = "none"

\* exact rationals [num, den] with den > 0
RatEq(a, b) ==
  IF a.den = b.den THEN a.num = b.num ELSE a.num * b.den = b.num * a.den
RatLeq(a, b) ==
  IF a.den = b.den THEN a.num <= b.num ELSE a.num * b.den <= b.num * a.den
RatLess(a, b) ==
  IF a.den = b.den THEN a.num < b.num ELSE a.num * b.den < b.num * a.den

\* the indexes whose result list of the last search holds d
ListsWith(d) ==
  {i \in DOMAIN rt_call.lists : d \in Range(rt_call.lists[i])}

\* 1-based rank of d in list i (the last one when the same object was
\* stored, and so returned, more than once)
RankOfIn(d, i) ==
  CHOOSE p \in DOMAIN rt_call.lists[i] :
    /\ rt_call.lists[i][p] = d
    /\ \A q \in DOMAIN rt_call.lists[i] : rt_call.lists[i][q] = d => q <= p

RECURSIVE RrfNumOver(_, _, _)
RrfNumOver(S, d, prod) ==
  IF S = {} THEN 0
  ELSE LET i == CHOOSE x \in S : TRUE
       IN  (prod \div (rt_call.k_rrf + RankOfIn(d, i)))
           + RrfNumOver(S \ {i}, d, prod)

\* the sum over the indexes in which d appears of 1 / (k_rrf + rank)
\* written over the common denominator of all the ranks of the last search
RrfSum(d) ==
  LET den == RrfDen(rt_call.k_rrf, MaxLen(rt_call.lists))
  IN  [num |-> RrfNumOver(ListsWith(d), d, den), den |-> den]

ObservedDocs == UNION {Range(rt_call.lists[i]) : i \in DOMAIN rt_call.lists}

\* C1: without a reranker, search returns documents observed in the
\* per-index result lists, each scored with the sum over the indexes in which
\* it appears of 1/(k_rrf + rank), ordered by that score descending and cut
\* to the k highest; every returned document appears once.
C1_RrfTopK ==
  (RetSearchReturned /\ ~rr) =>
    LET res == rt_call.result
        n == Cardinality(ObservedDocs)
    IN  /\ \A i \in DOMAIN res :
             /\ res[i].doc \in ObservedDocs
             /\ RatEq(res[i].score, RrfSum(res[i].doc))
        /\ \A i, j \in DOMAIN res :
             i < j => /\ RatLeq(res[j].score, res[i].score)
                      /\ res[i].doc # res[j].doc
        /\ Len(res) = (IF n < rt_call.k THEN n ELSE rt_call.k)
        /\ \A d \in ObservedDocs \ {res[i].doc : i \in DOMAIN res} :
             \A i \in DOMAIN res : RatLeq(RrfSum(d), res[i].score)

C1_Witness ==
  /\ RetSearchReturned /\ ~rr
  /\ Cardinality(ObservedDocs) > rt_call.k
  /\ Len(rt_call.lists[1]) >= 2
  /\ rt_call.lists[1][1] # rt_call.lists[2][1]
  /\ Len(rt_call.result) = 1
  /\ Cardinality(ListsWith(rt_call.result[1].doc)) = 2
  /\ \E d \in ObservedDocs : RatLess(RrfSum(d), rt_call.result[1].score)

\* fused score the last search gave to an observed document
FusedScoreOf(d) ==
  rt_call.scored[CHOOSE p \in DOMAIN rt_call.scored :
                   rt_call.scored[p].doc = d].score

\* C2: Reciprocal Rank Fusion is symmetric (X and Y ranked [X, Y] by one
\* index and [Y, X] by the other get equal fused scores) and rewards
\* agreement (a document present in only one list scores strictly lower
\* than a document that holds the same rank in a list and is also present
\* in another list).
C2_RrfSymmetricAndAgreement ==
  RetSearchReturned =>
    /\ {rt_call.scored[p].doc : p \in DOMAIN rt_call.scored} = ObservedDocs
    /\ \A X, Y \in ObservedDocs :
         ( /\ X # Y
           /\ ListsWith(X) = {1, 2} /\ ListsWith(Y) = {1, 2}
           /\ RankOfIn(X, 1) = RankOfIn(Y, 2)
           /\ RankOfIn(X, 2) = RankOfIn(Y, 1) )
         => RatEq(FusedScoreOf(X), FusedScoreOf(Y))
    /\ \A P, Q \in ObservedDocs :
         ( /\ Cardinality(ListsWith(P)) = 1
           /\ Cardinality(ListsWith(Q)) >= 2
           /\ \E i \in ListsWith(P), j \in ListsWith(Q) :
                RankOfIn(P, i) = RankOfIn(Q, j) )
         => RatLess(FusedScoreOf(P), FusedScoreOf(Q))

C2_Witness ==
  /\ RetSearchReturned
  /\ rt_call.k_rrf = 60
  /\ Len(rt_call.lists[1]) = 2 /\ Len(rt_call.lists[2]) = 2
  /\ rt_call.lists[1][1] # rt_call.lists[1][2]
  /\ rt_call.lists[2] = <<rt_call.lists[1][2], rt_call.lists[1][1]>>
  /\ RatEq(FusedScoreOf(rt_call.lists[1][1]), FusedScoreOf(rt_call.lists[1][2]))

\* a state where the agreement half of C2 applies
C2_AgreementCase ==
  /\ RetSearchReturned
  /\ \E P, Q \in ObservedDocs :
       /\ Cardinality(ListsWith(P)) = 1
       /\ Cardinality(ListsWith(Q)) >= 2
       /\ \E i \in ListsWith(P), j \in ListsWith(Q) :
            RankOfIn(P, i) = RankOfIn(Q, j)

\* the candidates handed to the reranker: the k best fused documents
Candidates == Take(rt_call.scored, rt_call.k)
CandidateDocs == {Candidates[p].doc : p \in DOMAIN Candidates}
CandidateIds == {heap[d].id : d \in CandidateDocs}

\* C3: with a reranker, search returns documents in exactly the order of the
\* identifiers the reranker returned, each with the fused score it had before
\* reranking; an identifier naming no candidate is skipped, and a candidate
\* whose identifier the reranker did not return is absent.
C3_RerankerOrder ==
  (RetSearchReturned /\ rr) =>
    LET res == rt_call.result
    IN  /\ [i \in DOMAIN res |-> heap[res[i].doc].id]
             = SelectSeq(rt_call.reranked, LAMBDA x : x \in CandidateIds)
        /\ \A i \in DOMAIN res :
             /\ res[i].doc \in CandidateDocs
             /\ res[i].score = FusedScoreOf(res[i].doc)
        /\ \A d \in CandidateDocs :
             heap[d].id \notin Range(rt_call.reranked)
             => \A i \in DOMAIN res : res[i].doc # d

C3_Witness ==
  /\ RetSearchReturned /\ rr
  /\ rt_call.reranked = <<"g1", "zz", "d1">>
  /\ Len(Candidates) = 2
  /\ Len(rt_call.result) = 2
  /\ rt_call.result[1].doc = Candidates[2].doc
  /\ rt_call.result[2].doc = Candidates[1].doc
  /\ RatLess(rt_call.result[1].score, rt_call.result[2].score)

RetAddSucceeded ==
  rt_call.op = "add_document" /\ rt_call.raised = "none"

\* C15: a successful Retriever.add_document(doc) leaves doc with an id (an
\* existing id is kept, a missing one is generated) and appends that same
\* document object, once, to every configured index.
C15_AddDocumentAssignsIdAndStores ==
  [][ RetAddSucceeded' =>
        LET d == rt_call'.doc
        IN  /\ heap'[d].hasId
            /\ heap[d].hasId => heap'[d].id = heap[d].id
            /\ ~heap[d].hasId => heap'[d].id \in GenIds
            /\ bm'.documents = Append(bm.documents, d)
            /\ vec'.documents = Append(vec.documents, d)
    ]_vars

C15_Witness ==
  /\ RetAddSucceeded
  /\ rt_call.doc = 2
  /\ heap[2].hasId /\ heap[2].id \in GenIds
  /\ Len(bm.documents) = 2 /\ Len(vec.documents) = 2
  /\ bm.documents[1] = 1 /\ heap[1].id = "d1"
  /\ bm.documents[2] = 2 /\ vec.documents[2] = 2

IsSuffixOf(t, s) ==
  /\ Len(t) <= Len(s)
  /\ \A i \in DOMAIN t : s[Len(s) - Len(t) + i] = t[i]

\* C16: Retriever.add_documents(docs) on a Retriever over the provided
\* BM25Index and VectorIndex delegates to each index's own bulk method, after
\* which every document of docs is stored, in order, in every index.
C16_AddDocumentsStoresAll ==
  rt_call.op = "add_documents" =>
    /\ rt_call.raised = "none"
    /\ IsSuffixOf(rt_call.docs, bm.documents)
    /\ IsSuffixOf(rt_call.docs, vec.documents)

RetAddFailed ==
  rt_call.op = "add_document" /\ rt_call.raised # "none"

\* C17: if Retriever.add_document(doc) raises, no configured index has
\* stored doc and doc itself has not been modified.
C17_FailedAddChangesNothing ==
  [][ RetAddFailed' =>
        /\ heap' = heap
        /\ bm'.documents = bm.documents
        /\ vec'.documents = vec.documents
    ]_vars

RetSearchCalled == rt_call.op = "search"

\* the arguments of the last Retriever.search that its contract rejects
RetSearchArgsInvalid ==
  \/ ~rt_call.query.isStr
  \/ rt_call.k <= 0
  \/ rt_call.k_rrf < 0

\* C18: Retriever.search raises an error when query_text is not a string,
\* when k <= 0 or when k_rrf < 0, before any configured index is queried and
\* before the reranker is called; k_rrf = 0 is accepted.
C18_SearchValidatesFirst ==
  [][ /\ (RetSearchCalled' /\ RetSearchArgsInvalid') =>
           /\ rt_call'.raised # "none"
           /\ bm' = bm /\ vec' = vec /\ heap' = heap
           /\ rt_call'.lists = <<>> /\ rt_call'.reranked = <<>>
      /\ (RetSearchCalled' /\ ~RetSearchArgsInvalid' /\ ~rt_call'.rr_raised) =>
           rt_call'.raised = "none"
    ]_vars

C18_Witness ==
  /\ RetSearchCalled
  /\ rt_call.k_rrf < 0
  /\ rt_call.raised = "ValueError"
  /\ Len(bm.documents) >= 2
  /\ ~bm.index_built

\* C19: if the configured reranker raises during Retriever.search, the
\* error propagates to the caller and the search returns no result (the
\* fused order is not returned as a fallback).
C19_RerankerErrorPropagates ==
  (RetSearchCalled /\ rt_call.rr_raised) =>
    /\ rt_call.raised = "RerankerError"
    /\ rt_call.result = <<>>

C19_Witness ==
  /\ RetSearchCalled /\ rr
  /\ rt_call.rr_raised
  /\ rt_call.raised = "RerankerError"
  /\ Len(rt_call.scored) >= 2
  /\ rt_call.result = <<>>

\* C20: a document added to an index or Retriever and later returned by a
\* search is the same document, with every metadata field other than id and
\* content unmodified: no add or search operation adds, removes or changes
\* such a field.
C20_MetadataPreserved ==
  /\ \A o \in Objs :
       /\ heap[o].meta = InitialHeap[o].meta
       /\ heap[o].hasContent = InitialHeap[o].hasContent
       /\ heap[o].content = InitialHeap[o].content
  /\ RetSearchReturned =>
       \A i \in DOMAIN rt_call.result :
         /\ rt_call.result[i].doc \in Range(bm.documents)
         /\ rt_call.result[i].doc \in Range(vec.documents)

C20_Witness ==
  /\ RetSearchReturned /\ rr
  /\ Len(rt_call.result) = 2
  /\ rt_call.result[1].doc = 2
  /\ ~InitialHeap[2].hasId
  /\ heap[2].hasId /\ heap[2].id \in GenIds
  /\ heap[2].meta = "m2"

(***************************************************************************)
(* _compute_bm25_score as a function of the term frequency: two indexes    *)
(* that differ in one stored document only, scored for the same query.     *)
(***************************************************************************)
\* longest scored document, in tokens
MaxDl == 4

\* `na` words "a", then `nb` words "b", then `nf` words "ab", blank-separated
RECURSIVE TfText(_, _, _)
TfText(na, nb, nf) ==
  LET word == IF na > 0 THEN <<"a">>
              ELSE IF nb > 0 THEN <<"b">> ELSE <<"a", "b">>
      rest == IF na > 0 THEN TfText(na - 1, nb, nf)
              ELSE IF nb > 0 THEN TfText(0, nb - 1, nf)
              ELSE TfText(0, 0, nf - 1)
  IN  IF na + nb + nf = 0 THEN <<>>
      ELSE IF na + nb + nf = 1 THEN word
      ELSE word \o <<" ">> \o rest

TfDoc(text) ==
  [hasContent |-> TRUE, contentIsStr |-> TRUE, content |-> text,
   hasId |-> FALSE, id |-> "", meta |-> ""]

\* the rest of the corpus: the documents stored after the scored one
TfOthers ==
  {<<>>,
   <<TfDoc(<<"b">>)>>,
   <<TfDoc(<<"a", " ", "b">>), TfDoc(<<"a", "b", " ", "a", "b", " ", "b">>)>>,
   <<TfDoc(<<"a">>), TfDoc(<<"b", " ", "a", "b">>)>>}

\* tokenized queries: a token is the sequence of its characters
TfQueries ==
  {<< <<"a">> >>, << <<"a">>, <<"b">> >>, << <<"b">>, <<"a">>, <<"a">> >>,
   << <<"a", "b">>, <<"a">> >>}

\* add_document for each object of h in turn, then _build_index
RECURSIVE TfAddAll(_, _, _)
TfAddAll(idx, h, i) ==
  IF i > Len(h) THEN idx
  ELSE TfAddAll(BM25AddDocument(idx, h, i), h, i + 1)

TfIndex(h) == BuildIndex(TfAddAll(BM25Empty, h, 1))

InitTf ==
  /\ heap = InitialHeap
  /\ bm = BM25Empty
  /\ bm_call = NoCall
  /\ vec = <<>>
  /\ vec_call = <<>>
  /\ rr = FALSE
  /\ rt_call = <<>>
  /\ cos = NoCos
  /\ fs = <<>>
  /\ ed_call = <<>>
  /\ pool = <<>>
  /\ tu_call = <<>>
  /\ par = <<>>
  /\ \E dl \in 1 .. MaxDl, others \in TfOthers, q \in TfQueries :
     \E tf \in 0 .. (dl \div 2) :
     \E nb \in 0 .. (IF dl - 2 * tf > 0 THEN 1 ELSE 0) :
       tfc = [called |-> FALSE,
              low_idx |->
                TfIndex(<<TfDoc(TfText(tf, nb, dl - tf - nb))>> \o others),
              high_idx |->
                TfIndex(<<TfDoc(TfText(2 * tf, nb, dl - 2 * tf - nb))>>
                        \o others),
              query_tokens |-> q, low |-> 0, high |-> 0]

\* self._compute_bm25_score(query_tokens, 0) on both indexes
TfScore ==
  /\ tfc' = [tfc EXCEPT
               !.called = TRUE,
               !.low = ComputeBM25Score(tfc.low_idx, tfc.query_tokens, 1),
               !.high = ComputeBM25Score(tfc.high_idx, tfc.query_tokens, 1)]
  /\ UNCHANGED <<heap, bm, bm_call, vec, vec_call, rr, rt_call, cos,
                 fs, ed_call, pool, tu_call, par>>

SpecTf == InitTf /\ [][TfScore]_vars

\* the two indexes agree on document lengths and on the corpus statistics
TfSameStatistics ==
  /\ tfc.low_idx.doc_len = tfc.high_idx.doc_len
  /\ tfc.low_idx.avg_doc_len = tfc.high_idx.avg_doc_len
  /\ tfc.low_idx.doc_freqs = tfc.high_idx.doc_freqs
  /\ tfc.low_idx.idf = tfc.high_idx.idf

\* the frequency of `token` in the scored document is doubled and every
\* other query token keeps its frequency
TfDoubled(token) ==
  /\ token \in Range(tfc.query_tokens)
  /\ Count(tfc.high_idx.corpus_tokens[1], token)
       = 2 * Count(tfc.low_idx.corpus_tokens[1], token)
  /\ \A t \in Range(tfc.query_tokens) \ {token} :
       Count(tfc.high_idx.corpus_tokens[1], t)
         = Count(tfc.low_idx.corpus_tokens[1], t)

\* C21: with k1 = 1.5, b = 0.75, the same document length and the same
\* corpus statistics, the raw BM25 score of a document in which one query
\* token's frequency is doubled is no smaller than with the original
\* frequency.
C21_ScoreMonotoneInTf ==
  (tfc.called /\ TfSameStatistics /\ TfDoubled(<<"a">>))
    => tfc.high >= tfc.low

\* a frequency of at least 1 was doubled and the score grew
C21_Witness ==
  /\ tfc.called
  /\ TfSameStatistics
  /\ TfDoubled(<<"a">>)
  /\ Count(tfc.low_idx.corpus_tokens[1], <<"a">>) >= 1
  /\ Len(tfc.low_idx.documents) > 1
  /\ tfc.high > tfc.low

(***************************************************************************)
(* TextEditorTool  (src/tools/TextEditorTool.py)                           *)
(* A string is a sequence of one-character strings.  `fs` is the file      *)
(* system: files by absolute path, the files of backup_dir by name, and    *)
(* the clock that stamps every write.                                      *)
(***************************************************************************)
\* the clock stops here: no write happens later
MaxClock == 4
\* longest file content written
MaxContent == 5

\* self.base_dir and self.backup_dir
BaseDir == <<"/", "b">>
BackupDir == BaseDir \o <<"/", ".", "b", "a", "c", "k", "u", "p", "s">>

\* s.split(sep) for a one-character sep
RECURSIVE Split(_, _)
Split(s, sep) ==
  IF s = <<>> THEN << <<>> >>
  ELSE LET rest == Split(Tail(s), sep)
       IN  IF s[1] = sep THEN << <<>> >> \o rest
           ELSE << <<s[1]>> \o rest[1] >> \o Tail(rest)

\* sep.join(pieces)
RECURSIVE Join(_, _)
Join(pieces, sep) ==
  IF pieces = <<>> THEN <<>>
  ELSE IF Len(pieces) = 1 THEN pieces[1]
  ELSE pieces[1] \o sep \o Join(Tail(pieces), sep)

\* the components of an absolute path with "", "." and ".." resolved
RECURSIVE NormComps(_, _)
NormComps(comps, stack) ==
  IF comps = <<>> THEN stack
  ELSE LET c == Head(comps)
       IN  IF c = <<>> \/ c = <<".">> THEN NormComps(Tail(comps), stack)
           ELSE IF c = <<".", ".">>
           THEN NormComps(Tail(comps),
                          IF stack = <<>> THEN <<>>
                          ELSE SubSeq(stack, 1, Len(stack) - 1))
           ELSE NormComps(Tail(comps), Append(stack, c))

\* os.path.normpath of an absolute path
NormPath(path) ==
  <<"/">> \o Join(NormComps(Split(path, "/"), <<>>), <<"/">>)

\* os.path.join(a, b)
PathJoin(a, b) ==
  IF b # <<>> /\ b[1] = "/" THEN b
  ELSE IF a = <<>> \/ a[Len(a)] = "/" THEN a \o b
  ELSE a \o <<"/">> \o b

\* s.startswith(prefix)
StartsWith(s, prefix) ==
  Len(prefix) <= Len(s) /\ SubSeq(s, 1, Len(prefix)) = prefix

\* _validate_path: [raised, abs_path]
ValidatePath(file_path) ==
  LET abs_path == NormPath(PathJoin(BaseDir, file_path))
  IN  IF ~StartsWith(abs_path, BaseDir)
      THEN [raised |-> "ValueError", abs_path |-> <<>>]
      ELSE [raised |-> "none", abs_path |-> abs_path]

\* os.path.basename
Basename(path) == LET c == Split(path, "/") IN c[Len(c)]

\* f"{n:.0f}" of a whole number n >= 0
RECURSIVE FormatInt(_)
FormatInt(n) ==
  LET digit == <<"0", "1", "2", "3", "4", "5", "6", "7", "8", "9">>
  IN  IF n < 10 THEN <<digit[n + 1]>>
      ELSE FormatInt(n \div 10) \o <<digit[(n % 10) + 1]>>

\* a < b for Python strings of ".", digits and lower-case letters
RECURSIVE StrLess(_, _)
StrLess(a, b) ==
  LET order == <<".", "0", "1", "2", "3", "4", "5", "6", "7", "8", "9",
                 "f", "g">>
      ord(c) == CHOOSE i \in DOMAIN order : order[i] = c
  IN  IF b = <<>> THEN FALSE
      ELSE IF a = <<>> THEN TRUE
      ELSE IF a[1] # b[1] THEN ord(a[1]) < ord(b[1])
      ELSE StrLess(Tail(a), Tail(b))

\* a dict or directory `f` with key k set to v
Put(f, k, v) == [x \in (DOMAIN f) \cup {k} |-> IF x = k THEN v ELSE f[x]]

\* os.path.isdir and os.path.exists
IsDir(files, path) ==
  \/ path \in {<<"/">>, BaseDir, BackupDir}
  \/ \E q \in DOMAIN files : q # path /\ StartsWith(q, path \o <<"/">>)

Exists(files, path) == path \in DOMAIN files \/ IsDir(files, path)

\* _backup_file: [fsys, path]; shutil.copy2 copies content and mtime
BackupFile(fsys, file_path) ==
  IF ~Exists(fsys.files, file_path) THEN [fsys |-> fsys, path |-> <<>>]
  ELSE LET name == Basename(file_path) \o <<".">>
                   \o FormatInt(fsys.files[file_path].mtime)
       IN  [fsys |-> [fsys EXCEPT
                        !.backups = Put(@, name, fsys.files[file_path])],
            path |-> PathJoin(BackupDir, name)]

\* _restore_backup: [raised, fsys, path]
RestoreBackup(fsys, file_path) ==
  LET prefix == Basename(file_path) \o <<".">>
      backups == {f \in DOMAIN fsys.backups : StartsWith(f, prefix)}
      latest == CHOOSE f \in backups :
                  \A g \in backups : g = f \/ StrLess(g, f)
  IN  IF backups = {}
      THEN [raised |-> "FileNotFoundError", fsys |-> fsys, path |-> <<>>]
      ELSE [raised |-> "none",
            fsys |-> [fsys EXCEPT
                        !.files = Put(@, file_path, fsys.backups[latest])],
            path |-> PathJoin(BackupDir, latest)]

\* content.count(old_str) from position i on: occurrences do not overlap
RECURSIVE CountMatches(_, _, _)
CountMatches(content, old_str, i) ==
  IF old_str = <<>> THEN Len(content) + 1
  ELSE IF i + Len(old_str) - 1 > Len(content) THEN 0
  ELSE IF SubSeq(content, i, i + Len(old_str) - 1) = old_str
  THEN 1 + CountMatches(content, old_str, i + Len(old_str))
  ELSE CountMatches(content, old_str, i + 1)

\* content.replace(old_str, new_str) from position i on, old_str not empty
RECURSIVE Replace(_, _, _, _)
Replace(content, old_str, new_str, i) ==
  IF i > Len(content) THEN <<>>
  ELSE IF i + Len(old_str) - 1 <= Len(content)
          /\ SubSeq(content, i, i + Len(old_str) - 1) = old_str
  THEN new_str \o Replace(content, old_str, new_str, i + Len(old_str))
  ELSE <<content[i]>> \o Replace(content, old_str, new_str, i + 1)

\* f.readlines(): every line keeps its "\n"
ReadLines(content) ==
  LET pieces == Split(content, "\n")
      n == Len(pieces)
  IN  [i \in 1 .. (n - 1) |-> Append(pieces[i], "\n")]
      \o (IF pieces[n] = <<>> THEN <<>> ELSE <<pieces[n]>>)

NoEdCall == [op |-> "none", file_path |-> <<>>, raised |-> "none",
             abs_path |-> <<>>, touched |-> {}, before |-> <<>>,
             result |-> <<>>]

\* what a caller may pass as file_path
EdPathArgs ==
  {<<"f">>, <<"s", "/", "f">>, <<".", ".", "/", "b", "s", "/", "g">>,
   <<".", ".", "/", "k", "/", "f">>}

\* the selected lines of view, numbered from `start`
ViewLines(content, view_range) ==
  LET lines == Split(content, "\n")
      start == IF view_range = <<>> THEN 1 ELSE view_range[1]
      end == IF view_range = <<>> \/ view_range[2] = 0 - 1 THEN Len(lines)
             ELSE IF view_range[2] > Len(lines) THEN Len(lines)
             ELSE view_range[2]
  IN  [i \in 1 .. (end - start + 1) |->
         [n |-> start + i - 1, line |-> lines[start + i - 1]]]

\* view(file_path, view_range)
EdView(file_path, view_range) ==
  \E v \in {ValidatePath(file_path)} :
  \E call \in {[NoEdCall EXCEPT !.op = "view", !.file_path = file_path,
                                !.abs_path = v.abs_path]} :
  /\ ed_call' =
       IF v.raised # "none" THEN [call EXCEPT !.raised = v.raised]
       ELSE IF IsDir(fs.files, v.abs_path)
       THEN [call EXCEPT !.touched = {v.abs_path}]
       ELSE IF ~Exists(fs.files, v.abs_path)
       THEN [call EXCEPT !.raised = "FileNotFoundError"]
       ELSE [call EXCEPT
               !.touched = {v.abs_path},
               !.result = ViewLines(fs.files[v.abs_path].content, view_range)]
  /\ UNCHANGED <<heap, bm, bm_call, vec, vec_call, rr, rt_call, cos,
                 tfc, fs, pool, tu_call, par>>

\* the file at `path` written at the current time
WriteFile(fsys, path, content) ==
  [fsys EXCEPT !.files = Put(@, path, [content |-> content,
                                       mtime |-> fsys.clock]),
               !.clock = fsys.clock + 1]

\* str_replace(file_path, old_str, new_str)
EdStrReplace(file_path, old_str, new_str) ==
  \E v \in {ValidatePath(file_path)} :
  \E call \in {[NoEdCall EXCEPT !.op = "str_replace",
                                !.file_path = file_path,
                                !.abs_path = v.abs_path]} :
  /\ IF v.raised # "none"
     THEN ed_call' = [call EXCEPT !.raised = v.raised] /\ fs' = fs
     ELSE IF ~Exists(fs.files, v.abs_path)
     THEN ed_call' = [call EXCEPT !.raised = "FileNotFoundError"] /\ fs' = fs
     ELSE IF IsDir(fs.files, v.abs_path)
     THEN ed_call' = [call EXCEPT !.raised = "IsADirectoryError"] /\ fs' = fs
     ELSE
       \E content \in {fs.files[v.abs_path].content} :
         IF CountMatches(content, old_str, 1) # 1
         THEN /\ ed_call' = [call EXCEPT !.raised = "ValueError",
                                         !.touched = {v.abs_path}]
              /\ fs' = fs
         ELSE
           \E saved \in {BackupFile(fs, v.abs_path)} :
           \E new_content \in {IF old_str = <<>> THEN new_str
                               ELSE Replace(content, old_str, new_str, 1)} :
             /\ fs.clock <= MaxClock
             /\ Len(new_content) <= MaxContent
             /\ ed_call' = [call EXCEPT
                              !.touched = {v.abs_path, saved.path},
                              !.before = content]
             /\ fs' = WriteFile(saved.fsys, v.abs_path, new_content)
  /\ UNCHANGED <<heap, bm, bm_call, vec, vec_call, rr, rt_call, cos,
                 tfc, pool, tu_call, par>>

\* create(file_path, file_text)
EdCreate(file_path, file_text) ==
  \E v \in {ValidatePath(file_path)} :
  \E call \in {[NoEdCall EXCEPT !.op = "create", !.file_path = file_path,
                                !.abs_path = v.abs_path]} :
  /\ IF v.raised # "none"
     THEN ed_call' = [call EXCEPT !.raised = v.raised] /\ fs' = fs
     ELSE IF Exists(fs.files, v.abs_path)
     THEN ed_call' = [call EXCEPT !.raised = "FileExistsError"] /\ fs' = fs
     ELSE /\ fs.clock <= MaxClock
          /\ ed_call' = [call EXCEPT !.touched = {v.abs_path}]
          /\ fs' = WriteFile(fs, v.abs_path, file_text)
  /\ UNCHANGED <<heap, bm, bm_call, vec, vec_call, rr, rt_call, cos,
                 tfc, pool, tu_call, par>>

\* the lines of insert after lines.insert(insert_line, new_str + "\n")
InsertLine(lines, insert_line, new_str) ==
  LET last == lines[Len(lines)]
      text == IF lines # <<>> /\ last[Len(last)] # "\n"
              THEN <<"\n">> \o new_str ELSE new_str
  IN  SubSeq(lines, 1, insert_line) \o <<Append(text, "\n")>>
      \o SubSeq(lines, insert_line + 1, Len(lines))

\* insert(file_path, insert_line, new_str)
EdInsert(file_path, insert_line, new_str) ==
  \E v \in {ValidatePath(file_path)} :
  \E call \in {[NoEdCall EXCEPT !.op = "insert", !.file_path = file_path,
                                !.abs_path = v.abs_path]} :
  /\ IF v.raised # "none"
     THEN ed_call' = [call EXCEPT !.raised = v.raised] /\ fs' = fs
     ELSE IF ~Exists(fs.files, v.abs_path)
     THEN ed_call' = [call EXCEPT !.raised = "FileNotFoundError"] /\ fs' = fs
     ELSE IF IsDir(fs.files, v.abs_path)
     THEN ed_call' = [call EXCEPT !.raised = "IsADirectoryError"] /\ fs' = fs
     ELSE
       \E saved \in {BackupFile(fs, v.abs_path)} :
       \E content \in {fs.files[v.abs_path].content} :
       \E lines \in {ReadLines(content)} :
         IF insert_line < 0 \/ insert_line > Len(lines)
         THEN /\ ed_call' = [call EXCEPT
                               !.raised = "IndexError",
                               !.touched = {v.abs_path, saved.path}]
              /\ fs' = saved.fsys
         ELSE
           \E new_content \in
                {Join(InsertLine(lines, insert_line, new_str), <<>>)} :
             /\ fs.clock <= MaxClock
             /\ Len(new_content) <= MaxContent
             /\ ed_call' = [call EXCEPT
                              !.touched = {v.abs_path, saved.path},
                              !.before = content]
             /\ fs' = WriteFile(saved.fsys, v.abs_path, new_content)
  /\ UNCHANGED <<heap, bm, bm_call, vec, vec_call, rr, rt_call, cos,
                 tfc, pool, tu_call, par>>

\* undo_edit(file_path)
EdUndoEdit(file_path) ==
  \E v \in {ValidatePath(file_path)} :
  \E call \in {[NoEdCall EXCEPT !.op = "undo_edit", !.file_path = file_path,
                                !.abs_path = v.abs_path]} :
  /\ IF v.raised # "none"
     THEN ed_call' = [call EXCEPT !.raised = v.raised] /\ fs' = fs
     ELSE IF ~Exists(fs.files, v.abs_path)
     THEN ed_call' = [call EXCEPT !.raised = "FileNotFoundError"] /\ fs' = fs
     ELSE
       \E restored \in {RestoreBackup(fs, v.abs_path)} :
         IF restored.raised # "none"
         THEN ed_call' = [call EXCEPT !.raised = restored.raised] /\ fs' = fs
         ELSE /\ ed_call' = [call EXCEPT
                               !.touched = {v.abs_path, restored.path}]
              /\ fs' = restored.fsys
  /\ UNCHANGED <<heap, bm, bm_call, vec, vec_call, rr, rt_call, cos,
                 tfc, pool, tu_call, par>>

\* the files found in and next to base_dir, each last written before the
\* tool was made: [content, mtime]
EdInitialFiles ==
  Put(Put(<<>>, <<"/", "b", "/", "f">>, [content |-> <<"x">>, mtime |-> 2]),
      <<"/", "b", "/", "s", "/", "f">>,
      [content |-> <<"x", "\n", "y">>, mtime |-> 1])

\* TextEditorTool(base_dir): backup_dir created and empty
InitEd ==
  /\ heap = InitialHeap
  /\ bm = BM25Empty
  /\ bm_call = NoCall
  /\ vec = <<>>
  /\ vec_call = <<>>
  /\ rr = FALSE
  /\ rt_call = <<>>
  /\ cos = NoCos
  /\ tfc = <<>>
  /\ pool = <<>>
  /\ tu_call = <<>>
  /\ par = <<>>
  /\ fs = [files |-> EdInitialFiles, backups |-> <<>>, clock |-> 3]
  /\ ed_call = NoEdCall

\* the commands a caller may issue; view_range is None or [start, end]
NextEd ==
  \/ \E p \in EdPathArgs, view_range \in {<<>>, <<2, 2>>} :
       EdView(p, view_range)
  \/ \E p \in EdPathArgs :
       EdStrReplace(p, <<"x">>, <<"y">>) \/ EdStrReplace(p, <<"y">>, <<>>)
  \/ \E p \in EdPathArgs : EdCreate(p, <<"x">>)
  \/ \E p \in EdPathArgs, insert_line \in {0, 3} :
       EdInsert(p, insert_line, <<"y">>)
  \/ \E p \in EdPathArgs : EdUndoEdit(p)

SpecEd == InitEd /\ [][NextEd]_vars

(***************************************************************************)
(* Claims about TextEditorTool, checked under SpecEd.                      *)
(***************************************************************************)
\* the directory base_dir contains `path`: component by component
InsideBaseDir(path) ==
  LET base == NormComps(Split(BaseDir, "/"), <<>>)
      comps == NormComps(Split(path, "/"), <<>>)
  IN  Len(base) <= Len(comps) /\ SubSeq(comps, 1, Len(base)) = base

\* C22: _validate_path returns a path only if it lies inside base_dir, a
\* file_path resolving outside base_dir is rejected with ValueError, and no
\* command reads or writes a file outside base_dir.
C22_ConfinedToBaseDir ==
  ed_call.op # "none" =>
    /\ ed_call.abs_path # <<>> => InsideBaseDir(ed_call.abs_path)
    /\ \A path \in ed_call.touched : InsideBaseDir(path)
    /\ ~InsideBaseDir(NormPath(PathJoin(BaseDir, ed_call.file_path)))
         => ed_call.raised = "ValueError"

\* a path whose text does not start with base_dir is rejected
EdRejectsOtherDirectories ==
  (ed_call.op # "none"
   /\ ~StartsWith(NormPath(PathJoin(BaseDir, ed_call.file_path)), BaseDir))
    => ed_call.raised = "ValueError" /\ ed_call.touched = {}

\* C23: undo_edit(F) right after a successful str_replace or insert on F
\* succeeds and gives F the content it had before that edit.
C23_UndoRestoresLastEdit ==
  [][(/\ ed_call.op \in {"str_replace", "insert"}
      /\ ed_call.raised = "none"
      /\ ed_call'.op = "undo_edit"
      /\ ed_call'.file_path = ed_call.file_path)
     => (/\ ed_call'.raised = "none"
         /\ fs'.files[ed_call.abs_path].content = ed_call.before)]_vars

(***************************************************************************)
(* Freshness of the BM25 statistics, checked under SpecBM25.               *)
(***************************************************************************)
\* the last call was a search that reached the scoring loop
BMSearchScored ==
  /\ bm_call.op = "search"
  /\ bm_call.raised = "none"
  /\ bm.documents # <<>>
  /\ bm.avg_doc_len.num # 0
  /\ DefaultTokenizer(bm_call.query.chars) # <<>>

\* the stored documents that contain `term`
DocsContaining(term) ==
  {i \in DOMAIN bm.corpus_tokens : term \in Range(bm.corpus_tokens[i])}

\* C24: every add_document marks the statistics stale, and when search
\* computes a score the average document length is the sum of the stored
\* lengths over the number of documents, every document frequency is the
\* number of stored documents containing the term, and IDF is computed from
\* those frequencies and the current document count.
C24_StatisticsFreshWhenScoring ==
  /\ (bm_call.op = "add_document" /\ bm_call.raised = "none")
       => ~bm.index_built
  /\ BMSearchScored =>
       /\ bm.index_built
       /\ bm.doc_len = [i \in DOMAIN bm.documents |-> Len(bm.corpus_tokens[i])]
       /\ bm.avg_doc_len = [num |-> SumSeq(bm.doc_len),
                            den |-> Len(bm.documents)]
       /\ DOMAIN bm.doc_freqs
            = UNION {Range(bm.corpus_tokens[i]) : i \in DOMAIN bm.corpus_tokens}
       /\ \A term \in DOMAIN bm.doc_freqs :
            bm.doc_freqs[term] = Cardinality(DocsContaining(term))
       /\ DOMAIN bm.idf = DOMAIN bm.doc_freqs
       /\ \A term \in DOMAIN bm.idf :
            bm.idf[term] = LnRatio(2 * Len(bm.documents) + 2,
                                   2 * Cardinality(DocsContaining(term)) + 1)

\* a search scored three stored documents that all contain "a"
C24_Witness ==
  /\ BMSearchScored
  /\ Len(bm.documents) = 3
  /\ bm.doc_freqs[<<"a">>] = 3
  /\ bm_call.result # <<>>

(***************************************************************************)
(* The indexes only grow at the end.                                       *)
(***************************************************************************)
\* the step keeps every stored document, token sequence, length and vector
\* at its position and adds at most one of each at the end
AppendOnlyStep ==
  /\ IsPrefixOf(bm.documents, bm'.documents)
  /\ IsPrefixOf(bm.corpus_tokens, bm'.corpus_tokens)
  /\ IsPrefixOf(bm.doc_len, bm'.doc_len)
  /\ Len(bm'.documents) <= Len(bm.documents) + 1
  /\ IsPrefixOf(vec.documents, vec'.documents)
  /\ IsPrefixOf(vec.vectors, vec'.vectors)
  /\ Len(vec'.documents) <= Len(vec.documents) + 1

\* the step changes no stored document, token sequence, document length,
\* document frequency or vector
StoredDataUnchanged ==
  /\ bm'.documents = bm.documents
  /\ bm'.corpus_tokens = bm.corpus_tokens
  /\ bm'.doc_len = bm.doc_len
  /\ bm'.doc_freqs = bm.doc_freqs
  /\ vec'.documents = vec.documents
  /\ vec'.vectors = vec.vectors

\* C25: no Retriever operation removes or reorders what the indexes store,
\* an add only appends at the end, and Retriever.search, with the
\* BM25Index.search and VectorIndex.search it calls, leaves the stored
\* documents, token sequences, document lengths, document frequencies and
\* vectors as they were.
C25_AppendOnly ==
  [][/\ AppendOnlyStep
     /\ rt_call'.op = "search" => StoredDataUnchanged]_vars

\* the same for BM25Index.search and VectorIndex.search called directly
AppendOnlyBM25 ==
  [][/\ IsPrefixOf(bm.documents, bm'.documents)
     /\ IsPrefixOf(bm.corpus_tokens, bm'.corpus_tokens)
     /\ IsPrefixOf(bm.doc_len, bm'.doc_len)
     /\ Len(bm'.documents) <= Len(bm.documents) + 1
     /\ bm_call'.op = "search" =>
          /\ bm'.documents = bm.documents
          /\ bm'.corpus_tokens = bm.corpus_tokens
          /\ bm'.doc_len = bm.doc_len
          /\ bm'.doc_freqs = bm.doc_freqs]_vars

AppendOnlyVec ==
  [][/\ AppendOnlyStep
     /\ vec_call'.op = "search" => StoredDataUnchanged]_vars

\* a search over three stored documents built the lexical index and
\* returned results
C25_Witness ==
  /\ RetSearchReturned
  /\ rt_call.result # <<>>
  /\ bm.index_built
  /\ Len(bm.documents) = 3
  /\ Len(vec.vectors) = 3

(***************************************************************************)
(* The per-index searches of Retriever.search run as concurrent threads,   *)
(* one per configured index, each advancing one statement at a time on     *)
(* the fields of its index.                                                *)
(***************************************************************************)
\* the same BM25Index configured twice
ParIndexesSharedIndex == <<"bm25", "bm25">>

\* self._indexes of Retriever(bm25_index, vector_index)
ParIndexes == <<"bm25", "vector">>

\* Retriever.add_document for each document of docs: [raised, heap, bm, vec]
RECURSIVE ParAddAll(_, _)
ParAddAll(st, docs) ==
  IF docs = <<>> THEN st
  ELSE ParAddAll(RetrieverAddDocument(st.bm, st.vec, st.heap, Head(docs),
                                      "g1"),
                 Tail(docs))

\* the state in which Retriever.search starts its index.search calls, each
\* call with its local variables at entry
InitPar ==
  /\ bm_call = NoCall
  /\ vec_call = NoVecCall
  /\ rr = FALSE
  /\ rt_call = NoRetCall
  /\ cos = NoCos
  /\ tfc = <<>>
  /\ fs = <<>>
  /\ ed_call = <<>>
  /\ pool = <<>>
  /\ tu_call = <<>>
  /\ \E docs \in {<<>>, <<1, 3>>, <<3, 1>>, <<1, 2, 3>>},
        built \in BOOLEAN,
        args \in {a \in RetSearchArgs :
                    RetSearchRaises(a.query, a.k, a.k_rrf) = "none"} :
     \E st \in {ParAddAll([raised |-> "none", heap |-> InitialHeap,
                           bm |-> BM25Empty,
                           vec |-> VectorIndexNew("cosine", TRUE)], docs)} :
       /\ heap = st.heap
       /\ bm = IF built THEN BuildIndex(st.bm) ELSE st.bm
       /\ vec = st.vec
       /\ par = [phase |-> "searching", query |-> args.query, k |-> args.k,
                 k_rrf |-> args.k_rrf, bm0 |-> bm, overlap |-> FALSE,
                 th |-> [t \in DOMAIN ParIndexes |->
                           [pc |-> "start", i |-> 0, todo |-> {},
                            tokens |-> <<>>, acc |-> <<>>,
                            raised |-> "none", result |-> <<>>]],
                 raised |-> "none", fused |-> <<>>]

\* some other thread is between its first and its last statement
ParOthersRunning(t) ==
  \E u \in DOMAIN par.th : u # t /\ par.th[u].pc \notin {"start", "done"}

\* one statement of BM25Index.search(query_text, k * 5) in thread t
ParBM25Step(t) ==
  LET me == par.th[t]
      k == par.k * OverFetch
      term == CHOOSE x \in me.todo : TRUE
      raw == ComputeBM25Score(bm, me.tokens, me.i)
      top == Take(SortDesc(me.acc), k)
      normalized == SortAsc(NormalizedResults(top))
      next(th2) == par' = [par EXCEPT !.th[t] = th2,
                             !.overlap = @ \/ ParOthersRunning(t)]
  IN
  /\ par.phase = "searching"
  /\ ParIndexes[t] = "bm25"
  /\ CASE me.pc = "start" ->
            /\ bm' = bm
            /\ IF bm.documents = <<>> THEN next([me EXCEPT !.pc = "done"])
               ELSE IF ~bm.index_built
               THEN next([me EXCEPT !.pc = "build_avg"])
               ELSE next([me EXCEPT !.pc = "tokenize"])
       [] me.pc = "build_avg" ->
            /\ bm' = [bm EXCEPT !.avg_doc_len =
                        [num |-> SumSeq(bm.doc_len),
                         den |-> Len(bm.documents)]]
            /\ next([me EXCEPT !.pc = "idf_reset"])
       [] me.pc = "idf_reset" ->
            /\ bm' = [bm EXCEPT !.idf = <<>>]
            /\ next([me EXCEPT !.pc = "idf_term",
                               !.i = Len(bm.documents),
                               !.todo = DOMAIN bm.doc_freqs])
       [] me.pc = "idf_term" ->
            IF me.todo = {}
            THEN /\ bm' = [bm EXCEPT !.index_built = TRUE]
                 /\ next([me EXCEPT !.pc = "tokenize"])
            ELSE /\ bm' = [bm EXCEPT !.idf =
                             Put(@, term,
                                 LnRatio(2 * me.i + 2,
                                         2 * bm.doc_freqs[term] + 1))]
                 /\ next([me EXCEPT !.todo = @ \ {term}])
       [] me.pc = "tokenize" ->
            /\ bm' = bm
            /\ IF bm.avg_doc_len.num = 0
                  \/ DefaultTokenizer(par.query.chars) = <<>>
               THEN next([me EXCEPT !.pc = "done"])
               ELSE next([me EXCEPT
                            !.pc = "score", !.i = 1,
                            !.tokens = DefaultTokenizer(par.query.chars)])
       [] me.pc = "score" ->
            /\ bm' = bm
            /\ IF me.i > Len(bm.documents)
               THEN next([me EXCEPT
                            !.pc = "done",
                            !.result = [j \in DOMAIN normalized |->
                                          [doc |-> normalized[j].doc,
                                           score |-> normalized[j].key]]])
               ELSE next([me EXCEPT
                            !.i = @ + 1,
                            !.acc = IF raw > ScoreEps
                                    THEN Append(@, [key |-> raw,
                                                    doc |-> bm.documents[me.i]])
                                    ELSE @])
       [] OTHER -> FALSE
  /\ UNCHANGED <<heap, bm_call, vec, vec_call, rr, rt_call, cos,
                 tfc, fs, ed_call, pool, tu_call>>

\* one statement of VectorIndex.search(query_text, k * 5) in thread t
ParVecStep(t) ==
  LET me == par.th[t]
      k == par.k * OverFetch
      query_vector == Embed(par.query.chars).v
      distance == IF vec.distance_metric = "cosine"
                  THEN CosineDistance(query_vector, vec.vectors[me.i])
                  ELSE EuclideanDistance(query_vector, vec.vectors[me.i])
      top == Take(SortAsc(me.acc), k)
      next(th2) == par' = [par EXCEPT !.th[t] = th2,
                             !.overlap = @ \/ ParOthersRunning(t)]
  IN
  /\ par.phase = "searching"
  /\ ParIndexes[t] = "vector"
  /\ CASE me.pc = "start" ->
            IF vec.vectors = <<>> \/ vec.vector_dim.isNone
            THEN next([me EXCEPT !.pc = "done"])
            ELSE IF ~vec.has_embedding_fn
                    \/ Len(query_vector) # vec.vector_dim.dim
            THEN next([me EXCEPT !.pc = "done", !.raised = "ValueError"])
            ELSE next([me EXCEPT !.pc = "dist", !.i = 1])
       [] me.pc = "dist" ->
            IF me.i > Len(vec.vectors)
            THEN next([me EXCEPT
                         !.pc = "done",
                         !.result = [j \in DOMAIN top |->
                                       [doc |-> top[j].doc,
                                        score |-> top[j].key]]])
            ELSE next([me EXCEPT
                         !.i = @ + 1,
                         !.acc = Append(@, [key |-> distance,
                                            doc |-> vec.documents[me.i]])])
       [] OTHER -> FALSE
  /\ UNCHANGED <<heap, bm, bm_call, vec, vec_call, rr, rt_call, cos,
                 tfc, fs, ed_call, pool, tu_call>>

\* the rest of Retriever.search once every index.search has returned
ParFuse ==
  /\ par.phase = "searching"
  /\ \A t \in DOMAIN par.th : par.th[t].pc = "done"
  /\ IF \E t \in DOMAIN par.th : par.th[t].raised # "none"
     THEN par' = [par EXCEPT !.phase = "returned", !.raised = "ValueError"]
     ELSE \E out \in {FuseAndRerank(
                        [t \in DOMAIN par.th |-> DocsOf(par.th[t].result)],
                        heap, FALSE, par.k, par.k_rrf, NoRerank,
                        [o \in Objs |-> "g1"])} :
            par' = [par EXCEPT !.phase = "returned", !.fused = out.result]
  /\ UNCHANGED <<heap, bm, bm_call, vec, vec_call, rr, rt_call, cos,
                 tfc, fs, ed_call, pool, tu_call>>

NextPar ==
  \/ \E t \in DOMAIN ParIndexes : ParBM25Step(t)
  \/ \E t \in DOMAIN ParIndexes : ParVecStep(t)
  \/ ParFuse

SpecPar == InitPar /\ [][NextPar]_vars

\* index.search of the t-th index when the calls run one after the other
ParSequential(t) ==
  IF ParIndexes[t] = "bm25"
  THEN BM25Search(par.bm0, par.query, par.k * OverFetch).result
  ELSE VecSearch(vec, [kind |-> "str", v |-> Embed(par.query.chars).v],
                 par.k * OverFetch).result

MaxIdeas == 3

\* as_completed yields every finished future exactly once; this variant
\* forgets which futures it has yielded.
AsCompletedForgetsYielded(p) ==
  {i \in DOMAIN p.fut : p.fut[i] \in {"ok", "raised"}}

\* as_completed(future_to_idea): the futures that are finished and not yet
\* yielded, in whatever order they finish.
AsCompleted(p) ==
  {i \in DOMAIN p.fut : p.fut[i] \in {"ok", "raised"} /\ i \notin p.yielded}

\* State after `executor.submit` has been called for every item: one
\* pending future per item.  The items are the ideas (generate_dataset) or
\* the test cases of the dataset file (run_evaluation); equal items may be
\* submitted more than once.
InitPool ==
  /\ heap = <<>> /\ bm = <<>> /\ bm_call = <<>> /\ vec = <<>>
  /\ vec_call = <<>> /\ rr = <<>> /\ rt_call = <<>> /\ cos = <<>>
  /\ tfc = <<>> /\ fs = <<>> /\ ed_call = <<>> /\ tu_call = <<>>
  /\ par = <<>>
  /\ \E method \in {"generate_dataset", "run_evaluation"},
        items \in {[i \in 1..n |-> i] : n \in 0..MaxIdeas} \cup {<<1, 1>>},
        max_workers \in {1, 3} :
       pool = [method |-> method, items |-> items,
               max_workers |-> max_workers,
               fut |-> [i \in DOMAIN items |-> "pending"],
               yielded |-> {}, collected |-> <<>>, pc |-> "collect"]

\* A pool thread takes a pending task when fewer than max_workers tasks are
\* running, and a running task finishes by returning or by raising.
PoolWorker(i) ==
  /\ pool # <<>>
  /\ i \in DOMAIN pool.fut
  /\ \/ /\ pool.fut[i] = "pending"
        /\ Cardinality({j \in DOMAIN pool.fut : pool.fut[j] = "running"})
             < pool.max_workers
        /\ pool' = [pool EXCEPT !.fut[i] = "running"]
     \/ /\ pool.fut[i] = "running"
        /\ \E outcome \in {"ok", "raised"} :
             pool' = [pool EXCEPT !.fut[i] = outcome]
  /\ UNCHANGED <<heap, bm, bm_call, vec, vec_call, rr, rt_call, cos,
                 tfc, fs, ed_call, tu_call, par>>

\* One iteration of `for future in as_completed(...)`.  generate_dataset
\* wraps future.result() in try/except and skips a task that raised;
\* run_evaluation calls future.result() unguarded, so the exception leaves
\* the method.
PoolCollect(i) ==
  /\ pool # <<>>
  /\ pool.pc = "collect"
  /\ i \in AsCompleted(pool)
  /\ pool' =
       IF pool.fut[i] = "ok"
         THEN [pool EXCEPT !.yielded = @ \cup {i},
                           !.collected = Append(@, [of |-> pool.items[i]])]
         ELSE IF pool.method = "generate_dataset"
           THEN [pool EXCEPT !.yielded = @ \cup {i}]
           ELSE [pool EXCEPT !.yielded = @ \cup {i}, !.pc = "raised"]
  /\ UNCHANGED <<heap, bm, bm_call, vec, vec_call, rr, rt_call, cos,
                 tfc, fs, ed_call, tu_call, par>>

\* After the loop: generate_dataset dumps and returns the list;
\* run_evaluation first takes mean() of the scores, which raises
\* StatisticsError on an empty list.
PoolReturn ==
  /\ pool # <<>>
  /\ pool.pc = "collect"
  /\ pool.yielded = DOMAIN pool.fut
  /\ pool' = [pool EXCEPT !.pc =
                IF pool.method = "run_evaluation" /\ pool.collected = <<>>
                  THEN "raised" ELSE "returned"]
  /\ UNCHANGED <<heap, bm, bm_call, vec, vec_call, rr, rt_call, cos,
                 tfc, fs, ed_call, tu_call, par>>

NextPool ==
  \/ \E i \in 1..(MaxIdeas + 1) : PoolWorker(i)
  \/ \E i \in 1..(MaxIdeas + 1) : PoolCollect(i)
  \/ PoolReturn

SpecPool == InitPool /\ [][NextPool]_vars

\* Number of entries of the collected list made from item x.
PoolCollectedOf(x) ==
  Cardinality({n \in DOMAIN pool.collected : pool.collected[n].of = x})

\* Number of submitted tasks for item x whose state is in states.
PoolSubmittedOf(x, states) ==
  Cardinality({i \in DOMAIN pool.items :
                 pool.items[i] = x /\ pool.fut[i] \in states})

\* C27 as stated: when the method returns, the collected list holds
\* exactly one entry for each submitted item, whatever the outcome of the
\* tasks.
C27_OneEntryPerSubmitted ==
  (pool # <<>> /\ pool.pc = "returned") =>
     \A x \in 1..(MaxIdeas + 1) :
        PoolCollectedOf(x) = PoolSubmittedOf(x, {"ok", "raised"})

\* C27 amended: when the method returns, every task has finished and the
\* collected list holds exactly one entry for each submitted item whose task
\* succeeded; run_evaluation returns only when every task succeeded, so
\* its list has exactly one entry per test case, and generate_dataset
\* leaves out the items whose task raised.
C27_OneEntryPerSuccessfulTask ==
  (pool # <<>> /\ pool.pc = "returned") =>
     /\ \A i \in DOMAIN pool.fut : pool.fut[i] \in {"ok", "raised"}
     /\ \A x \in 1..(MaxIdeas + 1) :
          PoolCollectedOf(x) = PoolSubmittedOf(x, {"ok"})
     /\ pool.method = "run_evaluation" =>
          /\ Len(pool.collected) = Len(pool.items)
          /\ \A i \in DOMAIN pool.fut : pool.fut[i] = "ok"

\* generate_dataset has returned after one task raised and two succeeded,
\* with the results collected in another order than they were submitted.
C27_Witness ==
  /\ pool # <<>>
  /\ pool.pc = "returned"
  /\ pool.method = "generate_dataset"
  /\ Len(pool.items) = 3
  /\ pool.fut[2] = "raised"
  /\ pool.collected = <<[of |-> 3], [of |-> 1]>>

\* ------------------------------------------------------------------
\* A Retriever built over indexes that already hold a document: the
\* owner of the indexes added document 2, which has no id, to both of them
\* before handing them to Retriever(bm25_index, vector_index,
\* reranker_fn=reranker_fn).
\* ------------------------------------------------------------------
InitRetStored ==
  /\ heap = InitialHeap
  /\ bm = BM25AddDocument(BM25Empty, InitialHeap, 2)
  /\ bm_call = NoCall
  /\ vec = VecAddDocument(VectorIndexNew("cosine", TRUE), InitialHeap, 2,
                          Embed(InitialHeap[2].content))
  /\ vec_call = NoVecCall
  /\ rr = TRUE
  /\ rt_call = NoRetCall
  /\ cos = NoCos
  /\ tfc = <<>>
  /\ fs = <<>>
  /\ ed_call = <<>>
  /\ pool = <<>>
  /\ tu_call = <<>>
  /\ par = <<>>

SpecRetStored == InitRetStored /\ [][NextRet]_vars

\* the documents an index of the Retriever stores
StoredDocs(b, v) == Range(b.documents) \cup Range(v.documents)

\* the candidates a search handed to the reranker
RerankCandidates(call) == Range(DocsOf(Take(call.scored, call.k)))

\* C28: a document's id, once present, is never changed by a later
\* Retriever operation, and a search that reaches the reranker leaves every
\* candidate with an id written to the object the indexes store.
C28_IdStableAndShared ==
  [][/\ \A o \in Objs :
          heap[o].hasId => heap'[o].hasId /\ heap'[o].id = heap[o].id
     /\ (rt_call'.op = "search" /\ rt_call'.lists # <<>>) =>
          \A d \in RerankCandidates(rt_call') :
             /\ heap'[d].hasId
             /\ d \in StoredDocs(bm', vec')
             /\ ~heap[d].hasId => heap'[d].id \in GenIds]_vars

\* a reranked search returned document 2, which was stored without an id
\* and never added through the Retriever, now carrying a generated id
C28_Witness ==
  /\ RetSearchReturned
  /\ rr
  /\ bm.documents = <<2>>
  /\ heap[2].hasId
  /\ heap[2].id = "g2"
  /\ rt_call.reranked = <<"g2", "d1", "d1">>
  /\ Len(rt_call.result) = 1
  /\ rt_call.result[1].doc = 2

\* C29: a search returns at most k pairs and never the same document
\* twice, whatever identifiers the reranker answered with.
C29_AtMostKDistinct ==
  RetSearchReturned =>
     /\ Len(rt_call.result) <= rt_call.k
     /\ \A i, j \in DOMAIN rt_call.result :
          rt_call.result[i].doc = rt_call.result[j].doc => i = j

\* the same bound when the reranker names no identifier twice
AtMostKDistinctForDistinctIds ==
  (RetSearchReturned
   /\ \A i, j \in DOMAIN rt_call.reranked :
        rt_call.reranked[i] = rt_call.reranked[j] => i = j) =>
     /\ Len(rt_call.result) <= rt_call.k
     /\ \A i, j \in DOMAIN rt_call.result :
          rt_call.result[i].doc = rt_call.result[j].doc => i = j

\* ------------------------------------------------------------------
\* run_tools and run_tool (src/tools/tool_use.py).  tu_call records the
\* message of the last call and the list it returned.
\* ------------------------------------------------------------------
MaxBlocks == 3

\* run_tool(tool_name, tool_input): [raised, output].  The editor works in
\* the directory of EdInitialFiles.  get_current_datetime calls
\* datetime.now() on the module datetime, which raises AttributeError (or
\* ValueError for an empty date_format); run_batch runs its invocations in
\* order and lets the first exception out.
RECURSIVE RunTool(_, _)
RunTool(tool_name, tool_input) ==
  IF tool_name = "get_current_datetime"
  THEN [raised |-> IF tool_input.date_format = <<>>
                   THEN "ValueError" ELSE "AttributeError",
        output |-> <<>>]
  ELSE IF tool_name = "batch_tool"
  THEN IF tool_input.invocations = <<>>
       THEN [raised |-> "none", output |-> <<>>]
       ELSE LET inv == Head(tool_input.invocations)
                first == RunTool(inv.name, inv.arguments)
                rest == RunTool("batch_tool",
                          [invocations |-> Tail(tool_input.invocations)])
            IN  IF first.raised # "none" THEN first
                ELSE IF rest.raised # "none" THEN rest
                ELSE [raised |-> "none",
                      output |-> <<[tool_name |-> inv.name,
                                    output |-> first.output]>>
                                 \o rest.output]
  ELSE IF tool_name = "str_replace_editor"
  THEN IF "command" \notin DOMAIN tool_input
       THEN [raised |-> "KeyError", output |-> <<>>]
       ELSE IF tool_input.command = "view"
       THEN LET v == ValidatePath(tool_input.path)
            IN  IF v.raised # "none"
                THEN [raised |-> v.raised, output |-> <<>>]
                ELSE IF IsDir(EdInitialFiles, v.abs_path)
                THEN [raised |-> "none", output |-> <<>>]
                ELSE IF ~Exists(EdInitialFiles, v.abs_path)
                THEN [raised |-> "FileNotFoundError", output |-> <<>>]
                ELSE [raised |-> "none",
                      output |-> ViewLines(EdInitialFiles[v.abs_path].content,
                                           <<>>)]
       ELSE [raised |-> "Exception", output |-> <<>>]
  ELSE [raised |-> "Exception", output |-> <<>>]

\* the content blocks a message may hold, as (type, name, input): text, and
\* tool_use for each tool, for an unknown tool, and for inputs that make
\* the tool raise; the block's id is filled in from its position
TuBlocks ==
  LET view(path) == [command |-> "view", path |-> path]
      use(tool, args) == [type |-> "tool_use", name |-> tool,
                          input |-> args]
  IN  {[type |-> "text", name |-> "", input |-> [text |-> <<"h", "i">>]],
       use("get_current_datetime", [date_format |-> <<"%", "Y">>]),
       use("str_replace_editor", view(<<"f">>)),
       use("str_replace_editor", view(<<".", ".", "/", "k", "/", "f">>)),
       use("str_replace_editor", [path |-> <<"f">>]),
       use("zz", [date_format |-> <<"%", "Y">>]),
       use("batch_tool",
           [invocations |-> <<[name |-> "str_replace_editor",
                               arguments |-> view(<<"f">>)]>>]),
       use("batch_tool",
           [invocations |-> <<[name |-> "str_replace_editor",
                               arguments |-> view(<<"f">>)],
                              [name |-> "zz",
                               arguments |-> [date_format |-> <<>>]]>>])}

\* the loop of this variant ends at the first tool that raises
RunToolsStopsAtError(message) ==
  LET requests == SelectSeq(message, LAMBDA b : b.type = "tool_use")
      outs == [n \in DOMAIN requests |->
                 RunTool(requests[n].name, requests[n].input)]
      bad == {n \in DOMAIN outs : outs[n].raised # "none"}
      last == IF bad = {} THEN Len(requests)
              ELSE CHOOSE n \in bad : \A m \in bad : n <= m
  IN
  /\ ~tu_call.called
  /\ tu_call' =
       [message |-> message, called |-> TRUE,
        ran |-> [n \in 1..last |-> requests[n].id],
        result |-> [n \in 1..last |->
           [type |-> "tool_result", tool_use_id |-> requests[n].id,
            content |-> IF outs[n].raised = "none"
                        THEN [json |-> outs[n].output]
                        ELSE [error |-> outs[n].raised],
            is_error |-> outs[n].raised # "none"]]]
  /\ UNCHANGED <<heap, bm, bm_call, vec, vec_call, rr, rt_call, cos,
                 tfc, fs, ed_call, pool, par>>

\* run_tools(message): the tool_use blocks are run in order; each gives one
\* tool_result block, built in the try branch from json.dumps of the output
\* or in the except branch from the exception.  ran lists the requests for
\* which run_tool was called.
RunTools(message) ==
  LET requests == SelectSeq(message, LAMBDA b : b.type = "tool_use")
      outs == [n \in DOMAIN requests |->
                 RunTool(requests[n].name, requests[n].input)]
  IN
  /\ ~tu_call.called
  /\ tu_call' =
       [message |-> message, called |-> TRUE,
        ran |-> [n \in DOMAIN requests |-> requests[n].id],
        result |-> [n \in DOMAIN requests |->
           [type |-> "tool_result", tool_use_id |-> requests[n].id,
            content |-> IF outs[n].raised = "none"
                        THEN [json |-> outs[n].output]
                        ELSE [error |-> outs[n].raised],
            is_error |-> outs[n].raised # "none"]]]
  /\ UNCHANGED <<heap, bm, bm_call, vec, vec_call, rr, rt_call, cos,
                 tfc, fs, ed_call, pool, par>>

\* a message of at most MaxBlocks content blocks is about to be handed to
\* run_tools, the block at position i carrying the id i
InitTu ==
  /\ heap = <<>> /\ bm = <<>> /\ bm_call = <<>> /\ vec = <<>>
  /\ vec_call = <<>> /\ rr = <<>> /\ rt_call = <<>> /\ cos = <<>>
  /\ tfc = <<>> /\ fs = <<>> /\ ed_call = <<>> /\ pool = <<>>
  /\ par = <<>>
  /\ \E n \in 0..MaxBlocks : \E blocks \in [1..n -> TuBlocks] :
       tu_call = [message |-> [i \in 1..n |->
                                 [type |-> blocks[i].type, id |-> i,
                                  name |-> blocks[i].name,
                                  input |-> blocks[i].input]],
                  called |-> FALSE, ran |-> <<>>, result |-> <<>>]

SpecTu == InitTu /\ [][RunTools(tu_call.message)]_vars

\* the tool_use blocks of the message of the last call, in order
TuRequests == SelectSeq(tu_call.message, LAMBDA b : b.type = "tool_use")

\* C30: run_tools returns one tool_result block per tool_use block, in the
\* same order and with that block's id; a request whose tool raises (an
\* unknown tool included) gets a block with is_error true, every request
\* is run whatever the earlier ones did, and the call returns.
C30_OneResultPerToolUse ==
  tu_call.called =>
     /\ Len(tu_call.result) = Len(TuRequests)
     /\ Len(tu_call.ran) = Len(TuRequests)
     /\ \A n \in DOMAIN TuRequests :
          /\ tu_call.result[n].type = "tool_result"
          /\ tu_call.result[n].tool_use_id = TuRequests[n].id
          /\ tu_call.ran[n] = TuRequests[n].id
          /\ RunTool(TuRequests[n].name, TuRequests[n].input).raised
                # "none" => tu_call.result[n].is_error
          /\ TuRequests[n].name
                \notin {"get_current_datetime", "batch_tool",
                        "str_replace_editor"} => tu_call.result[n].is_error

\* a message whose first request names an unknown tool, followed by text
\* and by a request that succeeds: two blocks, the first an error
C30_Witness ==
  /\ tu_call.called
  /\ Len(tu_call.message) = 3
  /\ tu_call.message[1].name = "zz"
  /\ tu_call.message[2].type = "text"
  /\ Len(tu_call.result) = 2
  /\ tu_call.result[1].is_error
  /\ ~tu_call.result[2].is_error
  /\ tu_call.result[2].tool_use_id = 3

====
